---- MODULE Spec2Model ----
(***************************************************************************)
(* AgFileSystemScanner (src/src/main.cpp): the directory walker scan_path, *)
(* the search walker search_path and the size calculator calc_dir_size,    *)
(* run over a bounded file system.  The call stack of the three recursive  *)
(* functions is explicit: one frame per active call, one step per loop     *)
(* iteration, per call and per return.                                     *)
(***************************************************************************)
EXTENDS Integers, Sequences, FiniteSets, TLC

(***************************************************************************)
(* Bounds of the model.                                                    *)
(***************************************************************************)
\* number of file system entries below the start directory
MaxEntries == 2
\* largest depth limit that follows -r / --recursive
MaxRecursionLevel == 1
\* number of entries whose queries fail, or which vanish during the walk
MaxFaults == 1

(***************************************************************************)
(* Option bits (main.cpp:18-61); sOptionMask is the set of the set bits.   *)
(***************************************************************************)
SHOW_RECURSIVE == 0
SHOW_PERMISSIONS == 1
SHOW_LASTTIME == 2
HELP == 13
SHOW_ABSNOINDENT == 3
SHOW_FILES == 5
SHOW_SYMLINKS == 6
SHOW_SPECIAL == 7
SEARCH_EXACT == 8
SEARCH_NOEXT == 9
SEARCH_CONTAINS == 10
SHOW_DIR_SIZE == 11
SHOW_ERRORS == 12

(***************************************************************************)
(* The file system.  Node 0 is the start directory; entry n of 1..Len(fs)  *)
(* lies in the directory fs[n].parent, and a directory lists its entries   *)
(* in increasing order of their number.  An entry is described by what the *)
(* queries of the walkers return for it:                                   *)
(*   sym    is_symlink (), which does not follow a symlink;                *)
(*   type   what status () finds after following symlinks: "file", "dir",  *)
(*          "special", or "none" when nothing is found;                    *)
(*   fault  the one query that fails on it: "status" (status ()), "size"   *)
(*          (file_size ()), "open" (directory_iterator), "canon"           *)
(*          (canonical ()), or "ok";                                       *)
(*   target for a symlink to a directory, the directory it points to: the  *)
(*          directory that holds it or one of its ancestors;               *)
(*   name   the file name.                                                 *)
(***************************************************************************)
Root == 0
NoPath == -1

\* the only character of the search pattern, and the other characters of names
Pattern == <<"r">>
NameExact == <<"r">>
NameStem == <<"r", ".", "t">>
NameLonger == <<"r", "s">>
NameOther == <<"x">>

\* 2^(n-1): entry n, if a regular file, has a size no other sum of sizes equals
RECURSIVE Pow2(_)
Pow2(k) == IF k = 0 THEN 1 ELSE 2 * Pow2(k - 1)
FileSizeOf(n) == Pow2(n - 1)

IsRealDir(e) == ~e.sym /\ e.type = "dir"
IsFaulty(e) == e.fault # "ok" \/ (~e.sym /\ e.type = "none")

NumFaults(f) == Cardinality({n \in 1..Len(f) : IsFaulty(f[n])})

\* the directories in which a new entry can lie
ParentChoices(f) ==
    {Root} \cup {n \in 1..Len(f) : IsRealDir(f[n]) /\ f[n].fault # "open"}

RECURSIVE AncestorsOrSelf(_, _)
AncestorsOrSelf(f, d) ==
    IF d = Root THEN {Root} ELSE {d} \cup AncestorsOrSelf(f, f[d].parent)

Entry(p, s, t, flt, tgt, nm) ==
    [parent |-> p, sym |-> s, type |-> t, fault |-> flt, target |-> tgt, name |-> nm]

\* the entries without a fault that can lie in directory p: a regular file or a
\* directory has one of the given names, every other entry the name nm
SoundEntries(f, p, names, nm) ==
    {Entry(p, FALSE, t, "ok", Root, n) : t \in {"file", "dir"}, n \in names}
    \cup {Entry(p, FALSE, "special", "ok", Root, nm),
          Entry(p, TRUE, "file", "ok", Root, nm)}
    \cup {Entry(p, TRUE, "dir", "ok", tgt, nm) : tgt \in AncestorsOrSelf(f, p)}

\* the entries with a fault of one of the given kinds: a dangling symlink
\* (status fails), a file whose size cannot be read, a directory that cannot be
\* opened, a file or directory whose path cannot be canonicalized, an entry
\* that vanishes after its status was read
FaultyEntries(f, p, nm, kinds) ==
    (IF "status" \in kinds
     THEN {Entry(p, TRUE, "none", "status", Root, nm)} ELSE {})
    \cup (IF "size" \in kinds
          THEN {Entry(p, FALSE, "file", "size", Root, nm)} ELSE {})
    \cup (IF "open" \in kinds
          THEN {Entry(p, FALSE, "dir", "open", Root, nm)} ELSE {})
    \cup (IF "canon" \in kinds
          THEN {Entry(p, FALSE, "dir", "canon", Root, nm)} ELSE {})
    \cup (IF "canonfile" \in kinds
          THEN {Entry(p, FALSE, "file", "canon", Root, nm)} ELSE {})
    \cup (IF "vanish" \in kinds
          THEN {Entry(p, FALSE, "none", "ok", Root, nm)} ELSE {})

EntryChoices(f, names, nm, faults, kinds) ==
    UNION {SoundEntries(f, p, names, nm)
             \cup (IF NumFaults(f) < faults
                   THEN FaultyEntries(f, p, nm, kinds) ELSE {})
           : p \in ParentChoices(f)}

\* every file system of at most n entries
RECURSIVE FileSystems(_, _, _, _, _)
FileSystems(n, names, nm, faults, kinds) ==
    IF n = 0 THEN {<<>>}
    ELSE LET smaller == FileSystems(n - 1, names, nm, faults, kinds)
         IN  smaller \cup
             UNION {{Append(f, e) : e \in EntryChoices(f, names, nm, faults, kinds)}
                    : f \in {g \in smaller : Len(g) = n - 1}}

\* the entries of directory d, in the order the directory iterator returns them
DirEntries(f, d) == SelectSeq([i \in 1..Len(f) |-> i], LAMBDA n : f[n].parent = d)

RECURSIVE DepthOf(_, _)
DepthOf(f, n) == IF n = Root THEN 0 ELSE 1 + DepthOf(f, f[n].parent)


(***************************************************************************)
(* The state of the process.                                               *)
(***************************************************************************)
VARIABLES
    fs,                 \* the file system below the start directory
    rootOpenFails,      \* the start directory cannot be opened
    sOptionMask,        \* main.cpp:228
    sRecursionLevel,    \* main.cpp:233
    sSearchPattern,     \* main.cpp:221; <<>> when no search option was given
    sNumFilesTotal, sNumSymlinksTotal, sNumSpecialTotal, sNumDirsTotal,
    sNumFilesRoot, sNumSymlinksRoot, sNumSpecialRoot, sNumDirsRoot,
    sNumFilesMatched, sNumSymlinksMatched, sNumSpecialMatched, sNumDirsMatched,
    sPrintSummary,      \* main.cpp:263
    stack,              \* the active calls of scan_path, search_path, calc_dir_size
    ret,                \* the value the last calc_dir_size call returned
    out,                \* the lines printed so far
    phase,              \* "start", "walk", "done", or "exit" after std::exit
    opened,             \* the directories whose iteration was opened, in order
    argv,               \* main.cpp:1470: the arguments after the executable name
    argi,               \* main.cpp:1482: the loop variable i of main
    searchPattern       \* main.cpp:1475; <<>> for nullptr

envVars == <<fs, rootOpenFails, sOptionMask, sRecursionLevel, sSearchPattern,
             argv, argi, searchPattern>>
totalVars == <<sNumFilesTotal, sNumSymlinksTotal, sNumSpecialTotal, sNumDirsTotal>>
rootVars == <<sNumFilesRoot, sNumSymlinksRoot, sNumSpecialRoot, sNumDirsRoot>>
matchedVars ==
    <<sNumFilesMatched, sNumSymlinksMatched, sNumSpecialMatched, sNumDirsMatched>>
vars == <<envVars, totalVars, rootVars, matchedVars, sPrintSummary, stack, ret,
          out, phase, opened>>

get_option(pBit) == pBit \in sOptionMask

NoRet == [set |-> FALSE, path |-> NoPath, val |-> 0]
Line(k, n, v) == [k |-> k, n |-> n, v |-> v]
ErrLine(k, n) == IF get_option(SHOW_ERRORS) THEN <<Line(k, n, 0)>> ELSE <<>>

\* a call: the function, the directory its path denotes (NoPath: the empty
\* path), the entry it was called for, its level, and its local variables
Frame(fn, path, entry, level) ==
    [fn |-> fn, path |-> path, entry |-> entry, pLevel |-> level, pc |-> "open",
     idx |-> 0, regularFileCnt |-> 0, symlinkCnt |-> 0, specialCnt |-> 0,
     subdirCnt |-> 0, totalFileSize |-> 0, totalDirSize |-> 0]

Top == stack[Len(stack)]
SetTop(f) == [stack EXCEPT ![Len(stack)] = f]
Pop == SubSeq(stack, 1, Len(stack) - 1)
Running(fn, pc) ==
    /\ phase = "walk"
    /\ stack # <<>>
    /\ Top.fn = fn
    /\ Top.pc = pc

\* the calls never nest deeper than this (a cap for the model checker only)
MaxStack == MaxEntries + 3

\* the directory a path denotes: a symlink to a directory denotes its target
DirOf(path) ==
    IF path # Root /\ path # NoPath /\ fs[path].sym THEN fs[path].target ELSE path

\* the entries the iterator of call f returns, and the entry the top call is at
Listing(f) == DirEntries(fs, DirOf(f.path))
CurEntry == Listing(Top)[Top.idx + 1]
AtEnd == Top.idx = Len(Listing(Top))

(***************************************************************************)
(* The queries.                                                            *)
(***************************************************************************)
\* fs::directory_iterator (pPath, sErrorCode) fails
OpenFails(path) ==
    \/ path = NoPath
    \/ path = Root /\ rootOpenFails
    \/ path # Root /\ path # NoPath /\ fs[path].fault = "open"

\* StatusFails for a status () that reports no failure
StatusNeverFails(e) == FALSE

\* entry.status (sErrorCode) fails
StatusFails(e) == e.fault = "status"
\* SizeFails for a file_size () that succeeds on every file
SizeNeverFails(e) == FALSE

\* fs::file_size (entry, sErrorCode) fails
SizeFails(e) == e.fault = "size"
\* fs::read_symlink (entry, sErrorCode) fails
ReadLinkFails(e) == e.fault = "readlink"

\* a path that is no entry of the file system: where a symlink to a file points
Elsewhere == -2

\* fs::read_symlink: the path a symlink points to
read_symlink(n) == IF fs[n].type = "dir" THEN fs[n].target ELSE Elsewhere

\* fs::canonical: the path with every symlink resolved
canonical(n) == IF fs[n].sym THEN read_symlink(n) ELSE n

\* a default-constructed fs::path (main.cpp:1157) is empty
EmptyPath == NoPath

\* CanonFails for a canonical () that succeeds on every path
CanonNeverFails(e) == FALSE

\* fs::canonical (filepath, sErrorCode) fails
CanonFails(e) == e.fault = "canon"

isDir(e) == e.type = "dir"
isFile(e) == e.type = "file"
isSymlink(e) == e.sym
isSpecial(e) == e.type = "special"

(***************************************************************************)
(* print_permissions (main.cpp:675-694).  The permissions of an entry are  *)
(* the set of the bits that are set in its status; a file system carries   *)
(* them (field perms) in the runs with --permissions, the only ones that   *)
(* read them.                                                              *)
(***************************************************************************)
PermBits ==
    <<"owner_read", "owner_write", "owner_exec",
      "group_read", "group_write", "group_exec",
      "others_read", "others_write", "others_exec">>
PermLetters == <<"r", "w", "x", "r", "w", "x", "r", "w", "x">>

\* main.cpp:683-693: position i shows its letter when
\* (entryPerms & bit) == fs::perms::none, and - otherwise
print_permissions(entryPerms) ==
    [i \in 1..9 |-> IF PermBits[i] \notin entryPerms THEN PermLetters[i] ELSE "-"]

\* main.cpp:822-826, 881-885, 922-926, 958-962, 1252-1256: the block is
\* printed with --permissions
Permissions(n) ==
    IF get_option(SHOW_PERMISSIONS)
    THEN <<Line("perms", n, print_permissions(fs[n].perms))>>
    ELSE <<>>

\* main.cpp:828-830, 887-889, 928-930, 964-966, 1258-1260: the block of the
\* last modification time (or its 20 filling characters) is printed with
\* --modification-time
Times(n) ==
    IF get_option(SHOW_LASTTIME) THEN <<Line("time", n, 0)>> ELSE <<>>

(***************************************************************************)
(* calc_dir_size (main.cpp:523-615)                                        *)
(***************************************************************************)
\* SizeBranch without the test that a directory is no symlink
SizeBranchFollowsLinks(e) ==
    IF isFile(e) THEN "file"
    ELSE IF isDir(e) THEN "dir"
    ELSE IF ~isSpecial(e) /\ ~isSymlink(e) THEN "unknown"
    ELSE "skip"

\* main.cpp:584, 599, 607: the branch of the loop body an entry takes
SizeBranch(e) ==
    IF isFile(e) THEN "file"
    ELSE IF isDir(e) /\ ~isSymlink(e) THEN "dir"
    ELSE IF ~isSpecial(e) /\ ~isSymlink(e) THEN "unknown"
    ELSE "skip"

\* the iterator is created: on failure the call returns -1
SizeOpen ==
    /\ Running("size", "open")
    /\ IF OpenFails(Top.path)
       THEN /\ out' = out \o ErrLine("err_iter", Top.entry)
            /\ ret' = [set |-> TRUE, path |-> Top.path, val |-> -1]
            /\ stack' = Pop
            /\ opened' = opened
       ELSE /\ stack' = SetTop([Top EXCEPT !.pc = "loop"])
            /\ opened' = Append(opened, [fn |-> "size", path |-> Top.path])
            /\ UNCHANGED <<out, ret>>
    /\ UNCHANGED <<envVars, totalVars, rootVars, matchedVars, sPrintSummary, phase>>

\* one iteration of the loop, up to the recursive call if it makes one
SizeEntry ==
    /\ Running("size", "loop")
    /\ ~AtEnd
    /\ LET n == CurEntry
           e == fs[n]
           next == [Top EXCEPT !.idx = @ + 1]
       IN  IF StatusFails(e)
           THEN /\ out' = out \o ErrLine("err_status", n)
                /\ stack' = SetTop(next)
           ELSE IF SizeBranch(e) = "file"
           THEN IF SizeFails(e)
                THEN /\ out' = out \o ErrLine("err_size", n)
                     /\ stack' = SetTop(next)
                ELSE /\ out' = out
                     /\ stack' = SetTop([next EXCEPT !.totalDirSize = @ + FileSizeOf(n)])
           ELSE IF SizeBranch(e) = "dir"
           THEN /\ Len(stack) < MaxStack
                /\ out' = out
                /\ stack' = Append(SetTop([Top EXCEPT !.pc = "sized"]),
                                   Frame("size", n, n, 0))
           ELSE IF SizeBranch(e) = "unknown"
           THEN /\ out' = Append(out, Line("unknown", n, 0))
                /\ stack' = SetTop(next)
           ELSE /\ out' = out
                /\ stack' = SetTop(next)
    /\ UNCHANGED <<envVars, totalVars, rootVars, matchedVars, sPrintSummary, ret,
                   phase, opened>>

\* SizeAdds for a loop that adds whatever the recursive call returns
SizeAddsAlways(curFileSize) == TRUE

\* main.cpp:600: the value of the recursive call is added unless it is -1
SizeAdds(curFileSize) == curFileSize # -1

\* the recursive call has returned: its value is added unless it is -1
SizeDirSized ==
    /\ Running("size", "sized")
    /\ ret.set
    /\ stack' = SetTop([Top EXCEPT !.pc = "loop", !.idx = @ + 1,
                                   !.totalDirSize = IF SizeAdds(ret.val) THEN @ + ret.val ELSE @])
    /\ ret' = NoRet
    /\ UNCHANGED <<envVars, totalVars, rootVars, matchedVars, sPrintSummary, out,
                   phase, opened>>

\* the loop is over: return totalDirSize
SizeReturn ==
    /\ Running("size", "loop")
    /\ AtEnd
    /\ ret' = [set |-> TRUE, path |-> Top.path, val |-> Top.totalDirSize]
    /\ stack' = Pop
    /\ UNCHANGED <<envVars, totalVars, rootVars, matchedVars, sPrintSummary, out,
                   phase, opened>>


(***************************************************************************)
(* scan_path (main.cpp:703-1108)                                           *)
(***************************************************************************)
\* ScanBranch with the symlink test after the tests that follow symlinks
ScanBranchTargetFirst(e) ==
    IF isFile(e) THEN "file"
    ELSE IF isSpecial(e) THEN "special"
    ELSE IF isDir(e) THEN "dir"
    ELSE IF isSymlink(e) THEN "symlink"
    ELSE "unknown"

\* the branch of the if-else chain (main.cpp:816, 859, 905, 946, 987)
ScanBranch(e) ==
    IF isSymlink(e) THEN "symlink"
    ELSE IF isFile(e) THEN "file"
    ELSE IF isSpecial(e) THEN "special"
    ELSE IF isDir(e) THEN "dir"
    ELSE "unknown"

\* ScanRecurses with the comparison pLevel <= sRecursionLevel
ScanRecursesInclusive(pLevel) ==
    /\ get_option(SHOW_RECURSIVE)
    /\ (sRecursionLevel = 0 \/ pLevel <= sRecursionLevel)

\* main.cpp:981-982: a subdirectory found by the call of level pLevel is scanned
ScanRecurses(pLevel) ==
    /\ get_option(SHOW_RECURSIVE)
    /\ (sRecursionLevel = 0 \/ pLevel < sRecursionLevel)

\* main.cpp:803-814: the path that is printed and passed on for entry n
ScanFilepath(n) ==
    IF get_option(SHOW_ABSNOINDENT) /\ ~isSymlink(fs[n]) /\ CanonFails(fs[n])
    THEN NoPath
    ELSE n

ScanCanonErr(n) ==
    IF get_option(SHOW_ABSNOINDENT) /\ ~isSymlink(fs[n]) /\ CanonFails(fs[n])
    THEN ErrLine("err_canon", n)
    ELSE <<>>

\* ScanOpenSuppresses for a call that clears sPrintSummary at every level
ScanOpenSuppressesAlways(pLevel) == TRUE

\* main.cpp:765-770: a failed open clears sPrintSummary in the call of level 0
ScanOpenSuppresses(pLevel) == pLevel = 0

\* main.cpp:759-773: the iterator is created; on failure the call returns
ScanOpen ==
    /\ Running("scan", "open")
    /\ IF OpenFails(Top.path)
       THEN /\ out' = out \o ErrLine("err_iter", Top.entry)
                      \o (IF ScanOpenSuppresses(Top.pLevel) /\ ~get_option(SHOW_ERRORS)
                          THEN <<Line("err_iter_root", Top.entry, 0)>> ELSE <<>>)
            /\ sPrintSummary' = IF ScanOpenSuppresses(Top.pLevel) THEN FALSE
                                ELSE sPrintSummary
            /\ stack' = Pop
            /\ opened' = opened
       ELSE /\ stack' = SetTop([Top EXCEPT !.pc = "loop"])
            /\ opened' = Append(opened, [fn |-> "scan", path |-> Top.path])
            /\ UNCHANGED <<out, sPrintSummary>>
    /\ UNCHANGED <<envVars, totalVars, rootVars, matchedVars, ret, phase>>

\* ScanDirLine for a loop that goes into a subdirectory without printing its line
ScanDirLineOmitted(f, n, size) ==
    /\ out' = out \o (IF get_option(SHOW_DIR_SIZE) THEN <<>> ELSE ScanCanonErr(n))
    /\ IF ScanRecurses(f.pLevel)
       THEN /\ Len(stack) < MaxStack
            /\ stack' = Append(SetTop([f EXCEPT !.pc = "loop", !.idx = @ + 1]),
                               Frame("scan", ScanFilepath(n), n, 1 + f.pLevel))
       ELSE stack' = SetTop([f EXCEPT !.pc = "loop", !.idx = @ + 1])

\* main.cpp:957-985: the line of subdirectory n, then the recursive call
ScanDirLine(f, n, size) ==
    /\ out' = out \o (IF get_option(SHOW_DIR_SIZE) THEN <<>> ELSE ScanCanonErr(n))
                  \o Permissions(n) \o Times(n) \o <<Line("dir", n, size)>>
    /\ IF ScanRecurses(f.pLevel)
       THEN /\ Len(stack) < MaxStack
            /\ stack' = Append(SetTop([f EXCEPT !.pc = "loop", !.idx = @ + 1]),
                               Frame("scan", ScanFilepath(n), n, 1 + f.pLevel))
       ELSE stack' = SetTop([f EXCEPT !.pc = "loop", !.idx = @ + 1])

\* main.cpp:832-856: the target is read; the line shows the path of the
\* symlink itself (absolute () or filename ()) and the target, and is left
\* out when the target cannot be read
ScanSymlinkLine(n) ==
    IF ReadLinkFails(fs[n])
    THEN ErrLine("err_readlink", n)
    ELSE <<Line("symlink", n, [path |-> n, target |-> read_symlink(n)])>>

\* main.cpp:783-993: one iteration of the loop, up to the call it makes
ScanEntry ==
    /\ Running("scan", "loop")
    /\ ~AtEnd
    /\ LET n == CurEntry
           e == fs[n]
           next == [Top EXCEPT !.idx = @ + 1]
       IN  IF StatusFails(e)
           THEN /\ out' = out \o ErrLine("err_status", n)
                /\ stack' = SetTop(next)
                /\ phase' = phase
           ELSE IF ScanBranch(e) = "symlink"
           THEN /\ out' = out \o ScanCanonErr(n)
                          \o (IF get_option(SHOW_SYMLINKS)
                              THEN Permissions(n) \o Times(n) \o ScanSymlinkLine(n)
                              ELSE <<>>)
                /\ stack' = SetTop([next EXCEPT !.symlinkCnt = @ + 1])
                /\ phase' = phase
           ELSE IF ScanBranch(e) = "file"
           THEN /\ out' = out \o ScanCanonErr(n)
                          \o (IF SizeFails(e) THEN ErrLine("err_size", n) ELSE <<>>)
                          \o (IF get_option(SHOW_FILES)
                              THEN Permissions(n) \o Times(n)
                                   \o <<Line("file", n,
                                             IF SizeFails(e) THEN -1 ELSE FileSizeOf(n))>>
                              ELSE <<>>)
                /\ stack' = SetTop([next EXCEPT
                                      !.regularFileCnt = @ + 1,
                                      !.totalFileSize =
                                          IF SizeFails(e) THEN @ ELSE @ + FileSizeOf(n)])
                /\ phase' = phase
           ELSE IF ScanBranch(e) = "special"
           THEN /\ out' = out \o ScanCanonErr(n)
                          \o (IF get_option(SHOW_SPECIAL)
                              THEN Permissions(n) \o Times(n) \o <<Line("special", n, 0)>>
                              ELSE <<>>)
                /\ stack' = SetTop([next EXCEPT !.specialCnt = @ + 1])
                /\ phase' = phase
           ELSE IF ScanBranch(e) = "dir"
           THEN IF get_option(SHOW_DIR_SIZE)
                THEN /\ Len(stack) < MaxStack
                     /\ out' = out \o ScanCanonErr(n)
                     /\ stack' = Append(SetTop([Top EXCEPT !.pc = "sized",
                                                           !.subdirCnt = @ + 1]),
                                        Frame("size", ScanFilepath(n), n, 0))
                     /\ phase' = phase
                ELSE /\ ScanDirLine([Top EXCEPT !.subdirCnt = @ + 1], n, -1)
                     /\ phase' = phase
           ELSE /\ out' = out \o ScanCanonErr(n) \o <<Line("unknown", n, 0)>>
                /\ stack' = stack
                /\ phase' = "exit"
    /\ UNCHANGED <<envVars, totalVars, rootVars, matchedVars, sPrintSummary, ret,
                   opened>>

\* main.cpp:951-985: calc_dir_size has returned the size of subdirectory n
ScanDirSized ==
    /\ Running("scan", "sized")
    /\ ret.set
    /\ ScanDirLine(Top, CurEntry, ret.val)
    /\ ret' = NoRet
    /\ UNCHANGED <<envVars, totalVars, rootVars, matchedVars, sPrintSummary, phase,
                   opened>>

\* main.cpp:1100-1103: without --abs the count of the special entries is
\* printed with %llu from the char * that format_int returns, the address of
\* its static buffer sFmtIntBuff; where the buffer lies is up to the loader
\* (4096, 8192: two addresses, neither of them a count of the model)
sFmtIntBuffAt == {4096, 8192}

\* main.cpp:1085-1105: what the line of the special entries can show
ScanSpecialCount(f) ==
    IF f.specialCnt # 0 /\ ~get_option(SHOW_SPECIAL) /\ ~get_option(SHOW_ABSNOINDENT)
    THEN sFmtIntBuffAt
    ELSE {f.specialCnt}

\* ScanAggregateShown for a call that prints the line of every kind it met
ScanAggregateShownAlways(cnt, flag) == cnt # 0

\* main.cpp:1010, 1043, 1075: a kind has its line when entries of it were met
\* and were not shown one by one
ScanAggregateShown(cnt, flag) == cnt # 0 /\ ~get_option(flag)

\* main.cpp:1007-1105: the lines for the kinds of entries that were not shown
ScanAggregates(f, shown) ==
    (IF ScanAggregateShown(f.regularFileCnt, SHOW_FILES)
     THEN <<Line("files", f.regularFileCnt, f.totalFileSize)>> ELSE <<>>)
    \o (IF ScanAggregateShown(f.symlinkCnt, SHOW_SYMLINKS)
        THEN <<Line("symlinks", f.symlinkCnt, 0)>> ELSE <<>>)
    \o (IF ScanAggregateShown(f.specialCnt, SHOW_SPECIAL)
        THEN <<Line("specials", shown, 0)>> ELSE <<>>)

\* ScanFoldsRoot for a call that folds at every level
ScanFoldsRootAlways(pLevel) == TRUE

\* main.cpp:1000: the counters of this call are added to the root totals
ScanFoldsRoot(pLevel) == pLevel = 0

\* FoldInto with an assignment in place of the addition
FoldAssign(total, cnt) == cnt

\* main.cpp:995-998, 1001-1004: total += cnt
FoldInto(total, cnt) == total + cnt

\* main.cpp:995-1107: the loop is over: fold the counters, print, return
ScanReturn ==
    /\ Running("scan", "loop")
    /\ AtEnd
    /\ sNumFilesTotal' = FoldInto(sNumFilesTotal, Top.regularFileCnt)
    /\ sNumSymlinksTotal' = FoldInto(sNumSymlinksTotal, Top.symlinkCnt)
    /\ sNumSpecialTotal' = FoldInto(sNumSpecialTotal, Top.specialCnt)
    /\ sNumDirsTotal' = FoldInto(sNumDirsTotal, Top.subdirCnt)
    /\ IF ScanFoldsRoot(Top.pLevel)
       THEN /\ sNumFilesRoot' = FoldInto(sNumFilesRoot, Top.regularFileCnt)
            /\ sNumSymlinksRoot' = FoldInto(sNumSymlinksRoot, Top.symlinkCnt)
            /\ sNumSpecialRoot' = FoldInto(sNumSpecialRoot, Top.specialCnt)
            /\ sNumDirsRoot' = FoldInto(sNumDirsRoot, Top.subdirCnt)
       ELSE UNCHANGED rootVars
    /\ \E shown \in ScanSpecialCount(Top) : out' = out \o ScanAggregates(Top, shown)
    /\ stack' = Pop
    /\ UNCHANGED <<envVars, matchedVars, sPrintSummary, ret, phase, opened>>

(***************************************************************************)
(* scan_path_init (main.cpp:1347-1403)                                     *)
(***************************************************************************)
ScanPathInit ==
    /\ phase = "start"
    /\ sSearchPattern = <<>>
    /\ sPrintSummary' = TRUE
    /\ stack' = <<Frame("scan", Root, Root, 0)>>
    /\ phase' = "walk"
    /\ UNCHANGED <<envVars, totalVars, rootVars, matchedVars, ret, out, opened>>

SummaryBlock(k, files, symlinks, special, dirs) ==
    <<Line(k, 1, files), Line(k, 2, symlinks), Line(k, 3, special), Line(k, 4, dirs),
      Line(k, 5, files + symlinks + special + dirs)>>

ScanSummary ==
    /\ phase = "walk"
    /\ stack = <<>>
    /\ sSearchPattern = <<>>
    /\ out' = IF ~sPrintSummary THEN out
              ELSE out
                   \o SummaryBlock("rootSum", sNumFilesRoot, sNumSymlinksRoot,
                                   sNumSpecialRoot, sNumDirsRoot)
                   \o (IF get_option(SHOW_RECURSIVE)
                       THEN SummaryBlock("recSum", sNumFilesTotal, sNumSymlinksTotal,
                                         sNumSpecialTotal, sNumDirsTotal)
                       ELSE <<>>)
    /\ phase' = "done"
    /\ UNCHANGED <<envVars, totalVars, rootVars, matchedVars, sPrintSummary, stack,
                   ret, opened>>

(***************************************************************************)
(* The display-mode runs: every file system within the bounds, every       *)
(* combination of the options scan_path reads.                             *)
(***************************************************************************)
\* the failures scan_path and calc_dir_size react to
ScanFaults == {"status", "size", "open", "canon", "vanish"}

ScanOptionBits ==
    {SHOW_FILES, SHOW_SYMLINKS, SHOW_SPECIAL, SHOW_DIR_SIZE, SHOW_ABSNOINDENT}

\* main has been through its arguments (the walks read none of them)
ArgsParsed ==
    /\ argv = <<>>
    /\ argi = 1
    /\ searchPattern = sSearchPattern

InitCounters ==
    /\ sNumFilesTotal = 0 /\ sNumSymlinksTotal = 0
    /\ sNumSpecialTotal = 0 /\ sNumDirsTotal = 0
    /\ sNumFilesRoot = 0 /\ sNumSymlinksRoot = 0
    /\ sNumSpecialRoot = 0 /\ sNumDirsRoot = 0
    /\ sNumFilesMatched = 0 /\ sNumSymlinksMatched = 0
    /\ sNumSpecialMatched = 0 /\ sNumDirsMatched = 0
    /\ sPrintSummary = FALSE
    /\ stack = <<>>
    /\ ret = NoRet
    /\ out = <<>>
    /\ phase = "start"
    /\ opened = <<>>

\* sRecursionLevel stays 0 unless -r is followed by a number
InitRecursion ==
    \/ /\ sRecursionLevel = 0
       /\ SHOW_RECURSIVE \notin sOptionMask
    \/ /\ sRecursionLevel \in 0..MaxRecursionLevel
       /\ SHOW_RECURSIVE \in sOptionMask

\* canonical () is called only with --abs (main.cpp:803), and only its
\* failure tells a run with --abs from one without: the option is drawn with
\* the file systems in which it can fail, and only with them
CanonMatters ==
    SHOW_ABSNOINDENT \in sOptionMask <=> \E n \in 1..Len(fs) : fs[n].fault = "canon"

InitScan ==
    /\ fs \in FileSystems(MaxEntries, {NameOther}, NameOther, MaxFaults, ScanFaults)
    /\ rootOpenFails \in {b \in BOOLEAN : b => NumFaults(fs) < MaxFaults}
    /\ \E o \in SUBSET (ScanOptionBits \cup {SHOW_RECURSIVE}) :
          sOptionMask = o \cup {SHOW_ERRORS}
    /\ CanonMatters
    /\ InitRecursion
    /\ sSearchPattern = <<>>
    /\ ArgsParsed
    /\ InitCounters

NextScan ==
    \/ ScanPathInit
    \/ ScanOpen
    \/ ScanEntry
    \/ ScanDirSized
    \/ ScanReturn
    \/ ScanSummary
    \/ SizeOpen
    \/ SizeEntry
    \/ SizeDirSized
    \/ SizeReturn

SpecScan == InitScan /\ [][NextScan]_vars


(***************************************************************************)
(* search_path (main.cpp:1116-1340)                                        *)
(***************************************************************************)
\* Stem for a name cut at its first dot
StemAtFirstDot(nm) ==
    LET dots == {i \in 1..Len(nm) : nm[i] = "."}
        first == CHOOSE i \in dots : \A j \in dots : i <= j
    IN  IF dots = {} \/ first = 1 THEN nm
        ELSE SubSeq(nm, 1, first - 1)

\* fs::path::stem (): the file name without its final extension
Stem(nm) ==
    LET dots == {i \in 1..Len(nm) : nm[i] = "."}
        last == CHOOSE i \in dots : \A j \in dots : j <= i
    IN  IF dots = {} \/ nm = <<".">> \/ nm = <<".", ".">> THEN nm
        ELSE IF last = 1 THEN nm
        ELSE SubSeq(nm, 1, last - 1)

\* main.cpp:461-491: pStr.find (sSearchPattern) != npos
check_contains(pStr) ==
    \E i \in 0..(Len(pStr) - Len(sSearchPattern)) :
        SubSeq(pStr, i + 1, i + Len(sSearchPattern)) = sSearchPattern

\* main.cpp:1211-1219
NameMatches(nm) ==
    IF get_option(SEARCH_EXACT) THEN nm = sSearchPattern
    ELSE IF get_option(SEARCH_NOEXT) THEN Stem(nm) = sSearchPattern
    ELSE check_contains(nm)

\* SearchTraversedKind for a loop that counts only the entries it may show
SearchTraversedKindShown(e) ==
    IF isSymlink(e) /\ get_option(SHOW_SYMLINKS) THEN "symlink"
    ELSE IF isFile(e) /\ get_option(SHOW_FILES) THEN "file"
    ELSE IF isSpecial(e) /\ get_option(SHOW_SPECIAL) THEN "special"
    ELSE IF isDir(e) THEN "dir"
    ELSE "none"

\* main.cpp:1198-1209: the traversed counter an entry increments
SearchTraversedKind(e) ==
    IF isSymlink(e) THEN "symlink"
    ELSE IF isFile(e) THEN "file"
    ELSE IF isSpecial(e) THEN "special"
    ELSE IF isDir(e) THEN "dir"
    ELSE "none"

\* main.cpp:1221-1237: the matched counter an entry with a matching name increments
SearchMatchedKind(e) ==
    IF isSymlink(e) /\ get_option(SHOW_SYMLINKS) THEN "symlink"
    ELSE IF isFile(e) /\ get_option(SHOW_FILES) THEN "file"
    ELSE IF isSpecial(e) /\ get_option(SHOW_SPECIAL) THEN "special"
    ELSE IF isDir(e) THEN "dir"
    ELSE "none"

\* isMatch at main.cpp:1239
SearchIsMatch(e) == NameMatches(e.name) /\ SearchMatchedKind(e) # "none"

\* SearchRecurses without the test that the directory is no symlink
SearchRecursesIntoLinks(e, pLevel) ==
    /\ isDir(e)
    /\ get_option(SHOW_RECURSIVE)
    /\ (sRecursionLevel = 0 \/ pLevel < sRecursionLevel)

\* main.cpp:1334-1335: entry e, found by the call of level pLevel, is searched
SearchRecurses(e, pLevel) ==
    /\ isDir(e) /\ ~isSymlink(e)
    /\ get_option(SHOW_RECURSIVE)
    /\ (sRecursionLevel = 0 \/ pLevel < sRecursionLevel)

\* main.cpp:1241: filepath after the match: canonical, or empty when that failed
SearchFilepath(n) ==
    IF SearchIsMatch(fs[n]) /\ CanonFails(fs[n]) THEN NoPath ELSE n

\* main.cpp:1262-1266, 1282, 1311: the line of a matched entry that is no directory
SearchLine(n) ==
    LET e == fs[n]
    IN  Permissions(n) \o Times(n)
        \o (IF isSymlink(e)
            THEN <<Line("symlink", n, [path |-> canonical(n), target |-> EmptyPath])>>
            ELSE IF isFile(e)
            THEN (IF SizeFails(e) THEN ErrLine("err_size", n) ELSE <<>>)
                 \o <<Line("file", n, IF SizeFails(e) THEN -1 ELSE FileSizeOf(n))>>
            ELSE IF isSpecial(e)
            THEN Permissions(n) \o Times(n) \o <<Line("special", n, 0)>>
            ELSE <<>>)

\* SearchOpenSuppresses for a call that never clears sPrintSummary
SearchOpenSuppressesNever(pLevel) == FALSE

\* main.cpp:1166-1168: a failed open clears sPrintSummary in the call of level 0
SearchOpenSuppresses(pLevel) == pLevel = 0

\* main.cpp:1161-1171
SearchOpen ==
    /\ Running("search", "open")
    /\ IF OpenFails(Top.path)
       THEN /\ out' = out \o ErrLine("err_iter", Top.entry)
            /\ sPrintSummary' = IF SearchOpenSuppresses(Top.pLevel) THEN FALSE
                                ELSE sPrintSummary
            /\ stack' = Pop
            /\ opened' = opened
       ELSE /\ stack' = SetTop([Top EXCEPT !.pc = "loop"])
            /\ opened' = Append(opened, [fn |-> "search", path |-> Top.path])
            /\ UNCHANGED <<out, sPrintSummary>>
    /\ UNCHANGED <<envVars, totalVars, rootVars, matchedVars, ret, phase>>

\* main.cpp:1334-1338: the end of an iteration
SearchRecursion(f, n) ==
    IF SearchRecurses(fs[n], f.pLevel)
    THEN /\ Len(stack) < MaxStack
         /\ stack' = Append(SetTop([f EXCEPT !.pc = "loop", !.idx = @ + 1]),
                            Frame("search", SearchFilepath(n), n, 1 + f.pLevel))
    ELSE stack' = SetTop([f EXCEPT !.pc = "loop", !.idx = @ + 1])

\* main.cpp:1174-1339: one iteration of the loop, up to the call it makes
SearchEntry ==
    /\ Running("search", "loop")
    /\ ~AtEnd
    /\ LET n == CurEntry
           e == fs[n]
           trav == SearchTraversedKind(e)
           hit == IF NameMatches(e.name) THEN SearchMatchedKind(e) ELSE "none"
       IN  IF StatusFails(e)
           THEN /\ out' = out \o ErrLine("err_status", n)
                /\ stack' = SetTop([Top EXCEPT !.idx = @ + 1])
                /\ UNCHANGED <<totalVars, matchedVars>>
           ELSE /\ sNumSymlinksTotal' = sNumSymlinksTotal + (IF trav = "symlink" THEN 1 ELSE 0)
                /\ sNumFilesTotal' = sNumFilesTotal + (IF trav = "file" THEN 1 ELSE 0)
                /\ sNumSpecialTotal' = sNumSpecialTotal + (IF trav = "special" THEN 1 ELSE 0)
                /\ sNumDirsTotal' = sNumDirsTotal + (IF trav = "dir" THEN 1 ELSE 0)
                /\ sNumSymlinksMatched' = sNumSymlinksMatched + (IF hit = "symlink" THEN 1 ELSE 0)
                /\ sNumFilesMatched' = sNumFilesMatched + (IF hit = "file" THEN 1 ELSE 0)
                /\ sNumSpecialMatched' = sNumSpecialMatched + (IF hit = "special" THEN 1 ELSE 0)
                /\ sNumDirsMatched' = sNumDirsMatched + (IF hit = "dir" THEN 1 ELSE 0)
                /\ IF ~SearchIsMatch(e)
                   THEN /\ out' = out
                        /\ SearchRecursion(Top, n)
                   ELSE IF CanonFails(e)
                   THEN /\ out' = out \o ErrLine("err_canon", n)
                        /\ SearchRecursion(Top, n)
                   ELSE IF isDir(e) /\ ~isSymlink(e) /\ ~isFile(e) /\ ~isSpecial(e)
                   THEN IF get_option(SHOW_DIR_SIZE)
                        THEN /\ Len(stack) < MaxStack
                             /\ out' = out \o Permissions(n) \o Times(n)
                             /\ stack' = Append(SetTop([Top EXCEPT !.pc = "sized"]),
                                                Frame("size", n, n, 0))
                        ELSE /\ out' = out \o Permissions(n) \o Times(n)
                                            \o <<Line("dir", n, -1)>>
                             /\ SearchRecursion(Top, n)
                   ELSE /\ out' = out \o SearchLine(n)
                        /\ SearchRecursion(Top, n)
    /\ UNCHANGED <<envVars, rootVars, sPrintSummary, ret, phase, opened>>

\* main.cpp:1320-1338: calc_dir_size has returned the size of the matched directory
SearchDirSized ==
    /\ Running("search", "sized")
    /\ ret.set
    /\ out' = Append(out, Line("dir", CurEntry, ret.val))
    /\ SearchRecursion(Top, CurEntry)
    /\ ret' = NoRet
    /\ UNCHANGED <<envVars, totalVars, rootVars, matchedVars, sPrintSummary, phase,
                   opened>>

\* main.cpp:1339-1340: the loop is over
SearchReturn ==
    /\ Running("search", "loop")
    /\ AtEnd
    /\ stack' = Pop
    /\ UNCHANGED <<envVars, totalVars, rootVars, matchedVars, sPrintSummary, ret,
                   out, phase, opened>>

(***************************************************************************)
(* search_path_init (main.cpp:1410-1466)                                   *)
(***************************************************************************)
SearchPathInit ==
    /\ phase = "start"
    /\ sSearchPattern # <<>>
    /\ sPrintSummary' = TRUE
    /\ out' = Append(out, Line("searching", Root, 0))
    /\ stack' = <<Frame("search", Root, Root, 0)>>
    /\ phase' = "walk"
    /\ UNCHANGED <<envVars, totalVars, rootVars, matchedVars, ret, opened>>

SearchSummary ==
    /\ phase = "walk"
    /\ stack = <<>>
    /\ sSearchPattern # <<>>
    /\ out' = IF ~sPrintSummary THEN out
              ELSE out
                   \o SummaryBlock("foundSum", sNumFilesMatched, sNumSymlinksMatched,
                                   sNumSpecialMatched, sNumDirsMatched)
                   \o SummaryBlock("TotalSum", sNumFilesTotal, sNumSymlinksTotal,
                                   sNumSpecialTotal, sNumDirsTotal)
    /\ phase' = "done"
    /\ UNCHANGED <<envVars, totalVars, rootVars, matchedVars, sPrintSummary, stack,
                   ret, opened>>

(***************************************************************************)
(* The search-mode runs.                                                   *)
(***************************************************************************)
\* the failures search_path reacts to
SearchFaults == {"status", "open", "canon", "canonfile", "vanish"}

SearchOptionBits == {SHOW_FILES, SHOW_SYMLINKS, SHOW_SPECIAL, SHOW_DIR_SIZE}
SearchModes == {SEARCH_EXACT}

InitSearch ==
    /\ fs \in FileSystems(MaxEntries, {NameExact, NameStem}, NameExact, MaxFaults, SearchFaults)
    /\ rootOpenFails \in {b \in BOOLEAN : b => NumFaults(fs) < MaxFaults}
    /\ \E m \in SearchModes, o \in SUBSET (SearchOptionBits \cup {SHOW_RECURSIVE}) :
          sOptionMask = o \cup {m, SHOW_ERRORS}
    /\ InitRecursion
    /\ sSearchPattern = Pattern
    /\ ArgsParsed
    /\ InitCounters

NextSearch ==
    \/ SearchPathInit
    \/ SearchOpen
    \/ SearchEntry
    \/ SearchDirSized
    \/ SearchReturn
    \/ SearchSummary
    \/ SizeOpen
    \/ SizeEntry
    \/ SizeDirSized
    \/ SizeReturn

SpecSearch == InitSearch /\ [][NextSearch]_vars

(***************************************************************************)
(* The runs with --dir-size over a start directory that holds one          *)
(* directory, which holds every other entry: calc_dir_size goes through a  *)
(* directory of MaxEntries entries.                                        *)
(***************************************************************************)
\* the failures calc_dir_size reacts to
SizeFaults == {"status", "size", "open"}

DeepFileSystems ==
    {f \in FileSystems(MaxEntries + 1, {NameOther}, NameOther, MaxFaults, SizeFaults) :
        /\ Len(f) = MaxEntries + 1
        /\ IsRealDir(f[1]) /\ f[1].fault = "ok"
        /\ \A n \in 2..Len(f) : f[n].parent # Root}

InitDirSize ==
    /\ fs \in DeepFileSystems
    /\ rootOpenFails = FALSE
    /\ sOptionMask = {SHOW_DIR_SIZE, SHOW_ERRORS}
    /\ sRecursionLevel = 0
    /\ sSearchPattern = <<>>
    /\ ArgsParsed
    /\ InitCounters

(***************************************************************************)
(* The searches of a start directory that holds one regular file, over     *)
(* every name and every pattern of at most MaxNameLen characters and the   *)
(* three search modes; files are shown, so that a name that matches is     *)
(* counted.                                                                *)
(***************************************************************************)
MaxNameLen == 3

NameChars == {"r", "s", "."}

RECURSIVE Words(_)
Words(n) ==
    IF n = 0 THEN {<<>>}
    ELSE LET shorter == Words(n - 1)
         IN  shorter \cup {Append(w, c) : w \in {v \in shorter : Len(v) = n - 1},
                                         c \in NameChars}

\* directory_iterator skips the entries . and ..; no name is empty
FileNames == Words(MaxNameLen) \ {<<>>, <<".">>, <<".", ".">>}

\* main.cpp:1551-1556: the pattern is not empty
Patterns == Words(MaxNameLen) \ {<<>>}

InitMatch ==
    /\ \E nm \in FileNames :
          fs = <<[sym |-> FALSE, type |-> "file", fault |-> "ok", parent |-> Root,
                  target |-> 0, name |-> nm]>>
    /\ rootOpenFails = FALSE
    /\ \E m \in {SEARCH_EXACT, SEARCH_NOEXT, SEARCH_CONTAINS} :
          sOptionMask = {m, SHOW_FILES, SHOW_ERRORS}
    /\ sRecursionLevel = 0
    /\ sSearchPattern \in Patterns
    /\ ArgsParsed
    /\ InitCounters

NextMatch ==
    \/ SearchPathInit
    \/ SearchOpen
    \/ SearchEntry
    \/ SearchReturn
    \/ SearchSummary

SpecMatch == InitMatch /\ [][NextMatch]_vars

(***************************************************************************)
(* The scans with --permissions of a start directory that holds one file   *)
(* or one directory, over every set of permission bits.                    *)
(***************************************************************************)
PermSets == SUBSET {PermBits[i] : i \in 1..9}

InitPerms ==
    /\ \E t \in {"file", "dir"}, P \in PermSets :
          fs = <<[sym |-> FALSE, type |-> t, fault |-> "ok", parent |-> Root,
                  target |-> 0, name |-> NameOther, perms |-> P]>>
    /\ rootOpenFails = FALSE
    /\ sOptionMask = {SHOW_FILES, SHOW_PERMISSIONS, SHOW_ERRORS}
    /\ sRecursionLevel = 0
    /\ sSearchPattern = <<>>
    /\ ArgsParsed
    /\ InitCounters

NextPerms ==
    \/ ScanPathInit
    \/ ScanOpen
    \/ ScanEntry
    \/ ScanReturn
    \/ ScanSummary

SpecPerms == InitPerms /\ [][NextPerms]_vars

(***************************************************************************)
(* The recursive scans of a start directory whose first entry is a         *)
(* directory that is not empty, followed by further entries: the trees in  *)
(* which a subdirectory has both descendants and later siblings.           *)
(***************************************************************************)
OrderFaults == {"size", "open"}

NestedFileSystems ==
    {f \in FileSystems(MaxEntries + 1, {NameOther}, NameOther, MaxFaults, OrderFaults) :
        /\ Len(f) = MaxEntries + 1
        /\ IsRealDir(f[1]) /\ f[1].parent = Root
        /\ f[2].parent = 1}

InitOrder ==
    /\ fs \in NestedFileSystems
    /\ rootOpenFails = FALSE
    /\ \E o \in SUBSET {SHOW_FILES, SHOW_DIR_SIZE} :
          sOptionMask = o \cup {SHOW_RECURSIVE, SHOW_ERRORS}
    /\ sRecursionLevel = 0
    /\ sSearchPattern = <<>>
    /\ ArgsParsed
    /\ InitCounters

SpecOrder == InitOrder /\ [][NextScan]_vars

(***************************************************************************)
(* The walks, in both modes and with every kind of entry shown, of a start *)
(* directory that holds files, directories, special files and symlinks,    *)
(* one with a target that cannot be read, with and without --permissions   *)
(* and --modification-time.                                                *)
(***************************************************************************)
BlockEntries ==
    {[sym |-> FALSE, type |-> t, fault |-> "ok", parent |-> Root, target |-> Root,
      name |-> NameExact, perms |-> {}] : t \in {"file", "dir", "special"}}
    \cup {[sym |-> TRUE, type |-> "file", fault |-> f, parent |-> Root, target |-> Root,
           name |-> NameExact, perms |-> {}] : f \in {"ok", "readlink"}}

RECURSIVE BlockFileSystems(_)
BlockFileSystems(n) ==
    IF n = 0 THEN {<<>>}
    ELSE LET smaller == BlockFileSystems(n - 1)
         IN  smaller \cup {Append(f, e) : f \in {g \in smaller : Len(g) = n - 1},
                                           e \in BlockEntries}

InitBlocks ==
    /\ fs \in BlockFileSystems(MaxEntries) \ {<<>>}
    /\ rootOpenFails = FALSE
    /\ \E o \in SUBSET {SHOW_PERMISSIONS, SHOW_LASTTIME}, m \in SUBSET {SEARCH_EXACT} :
          /\ sOptionMask = o \cup m \cup {SHOW_FILES, SHOW_SYMLINKS, SHOW_SPECIAL, SHOW_ERRORS}
          /\ sSearchPattern = IF m = {} THEN <<>> ELSE Pattern
    /\ sRecursionLevel = 0
    /\ ArgsParsed
    /\ InitCounters

NextBlocks ==
    \/ ScanPathInit
    \/ ScanOpen
    \/ ScanEntry
    \/ ScanReturn
    \/ ScanSummary
    \/ SearchPathInit
    \/ SearchOpen
    \/ SearchEntry
    \/ SearchReturn
    \/ SearchSummary

SpecBlocks == InitBlocks /\ [][NextBlocks]_vars

(***************************************************************************)
(* main (main.cpp:1469-1773): the loop over the arguments.  An argument is *)
(* the sequence of its characters; the switch on argLen followed by        *)
(* strncmp over argLen characters accepts an argument iff it is equal to   *)
(* the option's text.                                                      *)
(***************************************************************************)

\* the options that only set a bit (main.cpp:1516-1540, 1563-1598, 1631-1642,
\* 1662-1667, 1691-1701, 1724-1731)
PlainOptions ==
    {<<<<"-", "f">>, SHOW_FILES>>,
     <<<<"-", "l">>, SHOW_SYMLINKS>>,
     <<<<"-", "s">>, SHOW_SPECIAL>>,
     <<<<"-", "d">>, SHOW_DIR_SIZE>>,
     <<<<"-", "a">>, SHOW_ABSNOINDENT>>,
     <<<<"-", "e">>, SHOW_ERRORS>>,
     <<<<"-", "h">>, HELP>>,
     <<<<"-", "p">>, SHOW_PERMISSIONS>>,
     <<<<"-", "t">>, SHOW_LASTTIME>>,
     <<<<"-", "-", "a", "b", "s">>, SHOW_ABSNOINDENT>>,
     <<<<"-", "-", "h", "e", "l", "p">>, HELP>>,
     <<<<"-", "-", "f", "i", "l", "e", "s">>, SHOW_FILES>>,
     <<<<"-", "-", "s", "p", "e", "c", "i", "a", "l">>, SHOW_SPECIAL>>,
     <<<<"-", "-", "s", "y", "m", "l", "i", "n", "k", "s">>, SHOW_SYMLINKS>>,
     <<<<"-", "-", "d", "i", "r", "-", "s", "i", "z", "e">>, SHOW_DIR_SIZE>>,
     <<<<"-", "-", "s", "h", "o", "w", "-", "e", "r", "r">>, SHOW_ERRORS>>,
     <<<<"-", "-", "p", "e", "r", "m", "i", "s", "s", "i", "o", "n", "s">>, SHOW_PERMISSIONS>>,
     <<<<"-", "-", "m", "o", "d", "i", "f", "i", "c", "a", "t", "i", "o", "n", "-", "t", "i", "m", "e">>, SHOW_LASTTIME>>}

\* the options that are followed by a search pattern, with the bit each sets
\* (main.cpp:1542-1562, 1603-1624, 1642-1661, 1703-1722)
SearchOptions ==
    {<<<<"-", "S">>, SEARCH_EXACT>>,
     <<<<"-", "-", "s", "e", "a", "r", "c", "h">>, SEARCH_EXACT>>,
     <<<<"-", "-", "s", "e", "a", "r", "c", "h", "-", "n", "o", "e", "x", "t">>, SEARCH_NOEXT>>,
     <<<<"-", "-", "c", "o", "n", "t", "a", "i", "n", "s">>, SEARCH_CONTAINS>>}

\* main.cpp:1500, 1677
RecursiveOptions ==
    {<<"-", "r">>,
     <<"-", "-", "r", "e", "c", "u", "r", "s", "i", "v", "e">>}

Digits == <<"0", "1", "2", "3", "4", "5", "6", "7", "8", "9">>
IsDigit(c) == \E d \in 1..10 : Digits[d] = c
DigitValue(c) == (CHOOSE d \in 1..10 : Digits[d] = c) - 1

\* main.cpp:502-514: the characters are folded into pRes, which keeps the value
\* it had; the call fails at the first character that is no digit.  The
\* arguments of the model are too short for pRes to reach 2^64.
RECURSIVE parse_str_to_uint64(_, _)
parse_str_to_uint64(pPtr, pRes) ==
    IF pPtr = <<>> THEN [ok |-> TRUE, pRes |-> pRes]
    ELSE IF ~IsDigit(Head(pPtr)) THEN [ok |-> FALSE, pRes |-> pRes]
    ELSE parse_str_to_uint64(Tail(pPtr), (pRes * 10) + DigitValue(Head(pPtr)))

\* main.cpp:322-352: every byte becomes the wide character of the same value
widen_string(pPtr) == [i \in 1..Len(pPtr) |-> pPtr[i]]

\* ConflictingModes for a loop that accepts every search option
ConflictingModesNone(b) == {}

\* the search-mode bits that make the option with bit b a conflict
ConflictingModes(b) == {SEARCH_EXACT, SEARCH_NOEXT, SEARCH_CONTAINS} \ {b}

\* NoPatternAfter for a loop that only requires that an argument follows
NoPatternAfterLast(i) == i = Len(argv)

\* main.cpp:1553, 1615, 1652, 1713: the search option is the last argument, or
\* the argument after it is empty
NoPatternAfter(i) == i = Len(argv) \/ Len(argv[i + 1]) = 0

\* main.cpp:1482-1738: one iteration of the loop
ParseArg ==
    /\ phase = "parse"
    /\ argi <= Len(argv)
    /\ LET a == argv[argi]
           hasNext == argi < Len(argv)
           plain == {o \in PlainOptions : o[1] = a}
           search == {o \in SearchOptions : o[1] = a}
       IN  IF Len(a) = 0
           THEN /\ argi' = argi + 1
                /\ UNCHANGED <<sOptionMask, sRecursionLevel, searchPattern, phase>>
           ELSE IF argi = 1 /\ a[1] # "-"
           THEN /\ argi' = argi + 1
                /\ UNCHANGED <<sOptionMask, sRecursionLevel, searchPattern, phase>>
           ELSE IF a \in RecursiveOptions
           THEN /\ sOptionMask' = sOptionMask \cup {SHOW_RECURSIVE}
                /\ searchPattern' = searchPattern
                /\ IF hasNext /\ Len(argv[argi + 1]) # 0 /\ argv[argi + 1][1] # "-"
                   THEN LET r == parse_str_to_uint64(argv[argi + 1], sRecursionLevel)
                        IN  /\ sRecursionLevel' = r.pRes
                            /\ IF r.ok
                               THEN argi' = argi + 2 /\ phase' = phase
                               ELSE argi' = argi /\ phase' = "exit"
                   ELSE /\ argi' = argi + 1
                        /\ UNCHANGED <<sRecursionLevel, phase>>
           ELSE IF search # {}
           THEN LET b == (CHOOSE o \in search : TRUE)[2]
                IN  IF ConflictingModes(b) \cap sOptionMask # {}
                    THEN /\ phase' = "exit"
                         /\ UNCHANGED <<sOptionMask, sRecursionLevel, searchPattern, argi>>
                    ELSE IF NoPatternAfter(argi)
                    THEN /\ phase' = "exit"
                         /\ UNCHANGED <<sOptionMask, sRecursionLevel, searchPattern, argi>>
                    ELSE /\ sOptionMask' = sOptionMask \cup {b}
                         /\ searchPattern' = argv[argi + 1]
                         /\ argi' = argi + 2
                         /\ UNCHANGED <<sRecursionLevel, phase>>
           ELSE IF plain # {}
           THEN /\ sOptionMask' = sOptionMask \cup {o[2] : o \in plain}
                /\ argi' = argi + 1
                /\ UNCHANGED <<sRecursionLevel, searchPattern, phase>>
           ELSE /\ argi' = argi + 1
                /\ UNCHANGED <<sOptionMask, sRecursionLevel, searchPattern, phase>>
    /\ UNCHANGED <<fs, rootOpenFails, sSearchPattern, argv, totalVars, rootVars,
                   matchedVars, sPrintSummary, stack, ret, out, opened>>

\* HelpRequested for a main that never prints the usage text
HelpRequestedNever(mask) == FALSE

\* main.cpp:1741: get_option (HELP) after the loop
HelpRequested(mask) == HELP \in mask

\* main.cpp:1740-1755: after the loop: the usage text and return 0, or the
\* walk is chosen
ParseEnd ==
    /\ phase = "parse"
    /\ argi > Len(argv)
    /\ IF HelpRequested(sOptionMask)
       THEN /\ phase' = "help"
            /\ out' = Append(out, Line("usage", 0, 0))
            /\ sSearchPattern' = sSearchPattern
       ELSE /\ phase' = "start"
            /\ out' = out
            /\ sSearchPattern' = widen_string(searchPattern)
    /\ UNCHANGED <<fs, rootOpenFails, sOptionMask, sRecursionLevel, argv, argi,
                   searchPattern, totalVars, rootVars, matchedVars, sPrintSummary,
                   stack, ret, opened>>

(***************************************************************************)
(* The runs of main from its first statement up to the start of the walk,  *)
(* over every list of at most MaxArgs arguments.                           *)
(***************************************************************************)
MaxArgs == 4

ArgChoices ==
    {<<"-", "S">>,
     <<"-", "-", "s", "e", "a", "r", "c", "h">>,
     <<"-", "-", "s", "e", "a", "r", "c", "h", "-", "n", "o", "e", "x", "t">>,
     <<"-", "-", "c", "o", "n", "t", "a", "i", "n", "s">>,
     <<"-", "r">>,
     <<"-", "d">>,
     <<"-", "h">>,
     <<"-", "-", "h", "e", "l", "p">>,
     <<"r">>,
     <<"1">>,
     <<>>}

RECURSIVE ArgLists(_)
ArgLists(n) ==
    IF n = 0 THEN {<<>>}
    ELSE LET shorter == ArgLists(n - 1)
         IN  shorter \cup
             {Append(l, a) : l \in {m \in shorter : Len(m) = n - 1}, a \in ArgChoices}

InitMain ==
    /\ argv \in ArgLists(MaxArgs)
    /\ argi = 1
    /\ searchPattern = <<>>
    /\ fs = <<>>
    /\ rootOpenFails = FALSE
    /\ sOptionMask = {}
    /\ sRecursionLevel = 0
    /\ sSearchPattern = <<>>
    /\ sNumFilesTotal = 0 /\ sNumSymlinksTotal = 0
    /\ sNumSpecialTotal = 0 /\ sNumDirsTotal = 0
    /\ sNumFilesRoot = 0 /\ sNumSymlinksRoot = 0
    /\ sNumSpecialRoot = 0 /\ sNumDirsRoot = 0
    /\ sNumFilesMatched = 0 /\ sNumSymlinksMatched = 0
    /\ sNumSpecialMatched = 0 /\ sNumDirsMatched = 0
    /\ sPrintSummary = FALSE
    /\ stack = <<>>
    /\ ret = NoRet
    /\ out = <<>>
    /\ phase = "parse"
    /\ opened = <<>>

NextMain ==
    \/ ParseArg
    \/ ParseEnd
    \/ ScanPathInit
    \/ SearchPathInit

SpecMain == InitMain /\ [][NextMain]_vars

(***************************************************************************)
(* Every run of the program: main calls search_path_init when a search     *)
(* pattern was given and scan_path_init otherwise (main.cpp:1753-1767).    *)
(***************************************************************************)
Init == InitScan \/ InitSearch \/ InitDirSize

Next ==
    \/ ScanPathInit
    \/ ScanOpen
    \/ ScanEntry
    \/ ScanDirSized
    \/ ScanReturn
    \/ ScanSummary
    \/ SearchPathInit
    \/ SearchOpen
    \/ SearchEntry
    \/ SearchDirSized
    \/ SearchReturn
    \/ SearchSummary
    \/ SizeOpen
    \/ SizeEntry
    \/ SizeDirSized
    \/ SizeReturn

Spec == Init /\ [][Next]_vars

\* the process is single-threaded and always executes its next statement
SpecFair == Init /\ [][Next]_vars /\ WF_vars(Next)


(***************************************************************************)
(* What the file system holds, read off fs alone.                          *)
(***************************************************************************)
EntryIds == 1..Len(fs)
StatusKnown(n) == fs[n].fault # "status"

\* the kind of an entry: a symlink is a symlink whatever its target is
KindOf(n) ==
    IF fs[n].sym THEN "symlink"
    ELSE IF fs[n].type = "file" THEN "file"
    ELSE IF fs[n].type = "special" THEN "special"
    ELSE IF fs[n].type = "dir" THEN "dir"
    ELSE "none"

\* the entries of directory d of kind k whose status can be read
EntriesOfKind(d, k) ==
    {n \in EntryIds : fs[n].parent = d /\ StatusKnown(n) /\ KindOf(n) = k}

\* the sum of the values of a function with a finite domain
RECURSIVE SumOf(_)
SumOf(g) ==
    IF DOMAIN g = {} THEN 0
    ELSE LET x == CHOOSE y \in DOMAIN g : TRUE
         IN  g[x] + SumOf([y \in DOMAIN g \ {x} |-> g[y]])

\* the directories whose iteration call fn opened, once per opening
OpenedBy(fn) == {j \in 1..Len(opened) : opened[j].fn = fn}
OpenedDir(j) == DirOf(opened[j].path)
OpenedTotal(fn, k) ==
    SumOf([j \in OpenedBy(fn) |-> Cardinality(EntriesOfKind(OpenedDir(j), k))])

\* the entries with a readable status in the directories fn opened
Visited(fn) ==
    {n \in EntryIds : StatusKnown(n) /\ \E j \in OpenedBy(fn) : OpenedDir(j) = fs[n].parent}

Frames(fn) == {i \in 1..Len(stack) : stack[i].fn = fn}
Walkers == Frames("scan") \cup Frames("search")
\* the entries the loop of call f has finished with
Processed(f) == {Listing(f)[i] : i \in 1..f.idx}
ProcessedOfKind(f, k) == {n \in Processed(f) : StatusKnown(n) /\ KindOf(n) = k}

DisplayMode == sSearchPattern = <<>>
SearchMode == sSearchPattern # <<>>
HasLine(k, n) == \E i \in 1..Len(out) : out[i].k = k /\ out[i].n = n

(***************************************************************************)
(* C1. In search mode, at the end of every run, each matched counter is at *)
(* most the traversed counter of the same kind.                            *)
(***************************************************************************)
C1_MatchedAtMostTraversed ==
    (SearchMode /\ phase = "done") =>
        /\ sNumFilesMatched <= sNumFilesTotal
        /\ sNumSymlinksMatched <= sNumSymlinksTotal
        /\ sNumSpecialMatched <= sNumSpecialTotal
        /\ sNumDirsMatched <= sNumDirsTotal

(***************************************************************************)
(* C2, as claimed. With recursion on and a depth limit N > 0, no entry     *)
(* more than N levels below the root is enumerated by scan_path or         *)
(* search_path.                                                            *)
(***************************************************************************)
DepthLimited == get_option(SHOW_RECURSIVE) /\ sRecursionLevel > 0

C2_NoEntryBelowLimit ==
    DepthLimited =>
        \A j \in OpenedBy("scan") \cup OpenedBy("search") :
            \A n \in EntryIds :
                fs[n].parent = OpenedDir(j) => DepthOf(fs, n) <= sRecursionLevel

(***************************************************************************)
(* C2, amended. With recursion on and a depth limit N > 0, every call of   *)
(* scan_path and search_path has a level of at most N and walks a          *)
(* directory that many levels below the root, so no entry more than N + 1  *)
(* levels below the root is enumerated; a directory exactly N + 1 levels   *)
(* below the root is never opened, and its own line is printed (in search  *)
(* mode: when it matched and its path could be canonicalized).             *)
(***************************************************************************)
LinePrintedFor(n) ==
    IF DisplayMode THEN HasLine("dir", n)
    ELSE (SearchIsMatch(fs[n]) /\ fs[n].fault # "canon") => HasLine("dir", n)

C2_DepthLimit ==
    DepthLimited =>
        /\ \A i \in Walkers :
              /\ stack[i].pLevel <= sRecursionLevel
              /\ stack[i].path # NoPath => DepthOf(fs, DirOf(stack[i].path)) = stack[i].pLevel
        /\ \A j \in OpenedBy("scan") \cup OpenedBy("search") :
              /\ DepthOf(fs, OpenedDir(j)) <= sRecursionLevel
              /\ \A n \in EntryIds :
                    fs[n].parent = OpenedDir(j) => DepthOf(fs, n) <= sRecursionLevel + 1
        /\ phase = "done" =>
              \A n \in Visited("scan") \cup Visited("search") :
                  (KindOf(n) = "dir" /\ DepthOf(fs, n) = sRecursionLevel + 1) =>
                      /\ LinePrintedFor(n)
                      /\ \A j \in OpenedBy("scan") \cup OpenedBy("search") :
                            OpenedDir(j) # n

\* a finished run with depth limit 1 that printed the line of a directory two
\* levels below the root and did not open it
C2_Witness ==
    /\ DepthLimited
    /\ phase = "done"
    /\ \E n \in Visited("scan") \cup Visited("search") :
          /\ KindOf(n) = "dir"
          /\ DepthOf(fs, n) = sRecursionLevel + 1
          /\ HasLine("dir", n)

(***************************************************************************)
(* C3. scan_path, search_path and calc_dir_size never nest deeper than the *)
(* real (non-symlink) directory tree, also when a directory holds a        *)
(* symlink to itself or to an ancestor: the calls in progress walk a chain *)
(* of real directories, each an entry of the one before, and every run     *)
(* ends.                                                                   *)
(***************************************************************************)
RealDirs == {Root} \cup {n \in EntryIds : KindOf(n) = "dir"}
RealDepth == CHOOSE d \in 0..Len(fs) :
                 /\ \E n \in RealDirs : DepthOf(fs, n) = d
                 /\ \A n \in RealDirs : DepthOf(fs, n) <= d

RecursionBounded ==
    /\ Len(stack) <= RealDepth + 1
    /\ \A i \in 1..Len(stack) :
          /\ stack[i].entry \in RealDirs
          /\ DepthOf(fs, stack[i].entry) = i - 1
          /\ i > 1 => fs[stack[i].entry].parent = stack[i - 1].entry

C3_Terminates == []RecursionBounded /\ <>(phase \in {"done", "exit"})

\* a call in progress inside a directory that holds a symlink to itself or to
\* an ancestor, in a recursive run
C3_Witness ==
    /\ get_option(SHOW_RECURSIVE)
    /\ sRecursionLevel = 0
    /\ get_option(SHOW_DIR_SIZE)
    /\ Len(stack) >= 2
    /\ \E n \in Processed(Top) :
          fs[n].sym /\ fs[n].type = "dir" /\ fs[n].target = DirOf(Top.path)


(***************************************************************************)
(* C4. After a display-mode run whose root was opened, each grand-total    *)
(* counter is the sum, over the directories scan_path opened (each opening *)
(* counted once), of the number of entries of that kind in the directory.  *)
(***************************************************************************)
C4_GrandTotals ==
    (DisplayMode /\ phase = "done" /\ sPrintSummary) =>
        /\ sNumFilesTotal = OpenedTotal("scan", "file")
        /\ sNumSymlinksTotal = OpenedTotal("scan", "symlink")
        /\ sNumSpecialTotal = OpenedTotal("scan", "special")
        /\ sNumDirsTotal = OpenedTotal("scan", "dir")
        /\ \A i, j \in OpenedBy("scan") : OpenedDir(i) = OpenedDir(j) => i = j

\* a finished recursive run that opened a subdirectory, both levels with entries
C4_Witness ==
    /\ DisplayMode /\ phase = "done" /\ sPrintSummary
    /\ get_option(SHOW_RECURSIVE)
    /\ Cardinality(OpenedBy("scan")) >= 2
    /\ \A j \in OpenedBy("scan") :
          \E n \in EntryIds : fs[n].parent = OpenedDir(j) /\ StatusKnown(n)

(***************************************************************************)
(* C5. The root totals are 0 until the call of level 0 has finished its    *)
(* loop (no call of a level above 0 changes them) and from then on are the *)
(* numbers of entries of each kind in the root directory.                  *)
(***************************************************************************)
RootFolded == stack = <<>> /\ phase \in {"walk", "done"} /\ sPrintSummary

C5_RootTotals ==
    DisplayMode =>
        IF RootFolded
        THEN /\ sNumFilesRoot = Cardinality(EntriesOfKind(Root, "file"))
             /\ sNumSymlinksRoot = Cardinality(EntriesOfKind(Root, "symlink"))
             /\ sNumSpecialRoot = Cardinality(EntriesOfKind(Root, "special"))
             /\ sNumDirsRoot = Cardinality(EntriesOfKind(Root, "dir"))
        ELSE /\ sNumFilesRoot = 0
             /\ sNumSymlinksRoot = 0
             /\ sNumSpecialRoot = 0
             /\ sNumDirsRoot = 0

\* a call of level 1 has folded its counters and the call of level 0 has not
C5_Witness ==
    /\ DisplayMode /\ phase = "walk"
    /\ Len(stack) = 1
    /\ sNumFilesTotal + sNumSymlinksTotal + sNumSpecialTotal + sNumDirsTotal > 0

(***************************************************************************)
(* C6. In a directory scan_path opened, all of whose entries have a        *)
(* readable status, the four counters add up to the number of entries the  *)
(* loop has been through, and so to the number of entries of the directory *)
(* at the end of the loop; the symlink counter is the number of symlinks   *)
(* among them, whatever their targets.                                     *)
(***************************************************************************)
CounterSum(f) == f.regularFileCnt + f.symlinkCnt + f.specialCnt + f.subdirCnt
\* the entries counted by call f: a subdirectory is counted before its size
\* is computed, and the loop moves on after it
Counted(f) == IF f.pc = "sized" THEN f.idx + 1 ELSE f.idx

C6_Completeness ==
    \A i \in Frames("scan") :
        LET f == stack[i]
        IN  (f.pc # "open" /\ \A n \in EntryIds : fs[n].parent = DirOf(f.path) => StatusKnown(n)) =>
                /\ CounterSum(f) = Counted(f)
                /\ f.idx = Len(Listing(f)) =>
                      CounterSum(f) = Cardinality({n \in EntryIds : fs[n].parent = DirOf(f.path)})
                /\ f.symlinkCnt = Cardinality({n \in Processed(f) : fs[n].sym})

\* the end of the loop over a directory of two entries, one a symlink to a
\* directory
C6_Witness ==
    /\ Running("scan", "loop")
    /\ AtEnd
    /\ Top.idx >= 2
    /\ \A n \in Processed(Top) : StatusKnown(n)
    /\ \E n \in Processed(Top) : fs[n].sym /\ fs[n].type = "dir"

(***************************************************************************)
(* C7. When every query succeeds, the value calc_dir_size returns for a    *)
(* directory is the sum of the sizes of the regular files that are real    *)
(* entries of it or of its real descendant directories; a symlink          *)
(* contributes 0 whatever its target is.                                   *)
(***************************************************************************)
RECURSIVE RealFilesSize(_)
RealFilesSize(d) ==
    SumOf([n \in {m \in EntryIds : fs[m].parent = d} |->
              IF KindOf(n) = "file" THEN FileSizeOf(n)
              ELSE IF KindOf(n) = "dir" THEN RealFilesSize(n)
              ELSE 0])

C7_SizeOfRealFiles ==
    (ret.set /\ NumFaults(fs) = 0) => ret.val = RealFilesSize(ret.path)

(***************************************************************************)
(* C8. In search mode every entry with a readable status increments the    *)
(* matched counter of its own kind iff its name matches and its kind is    *)
(* directory or has its visibility flag set, and no other matched counter: *)
(* at the end of a run each matched counter is the number of such entries  *)
(* of its kind in the directories search_path opened.                      *)
(***************************************************************************)
Eligible(n) ==
    /\ NameMatches(fs[n].name)
    /\ \/ KindOf(n) = "dir"
       \/ KindOf(n) = "file" /\ get_option(SHOW_FILES)
       \/ KindOf(n) = "symlink" /\ get_option(SHOW_SYMLINKS)
       \/ KindOf(n) = "special" /\ get_option(SHOW_SPECIAL)
MatchedOfKind(k) == Cardinality({n \in Visited("search") : KindOf(n) = k /\ Eligible(n)})

C8_MatchedOwnKind ==
    (SearchMode /\ phase = "done") =>
        /\ sNumFilesMatched = MatchedOfKind("file")
        /\ sNumSymlinksMatched = MatchedOfKind("symlink")
        /\ sNumSpecialMatched = MatchedOfKind("special")
        /\ sNumDirsMatched = MatchedOfKind("dir")


(***************************************************************************)
(* C9. No call of scan_path or search_path is made for a symlink and no    *)
(* directory they open is one; in scan_path every symlink the loop has     *)
(* been through is in symlinkCnt and only real directories are in          *)
(* subdirCnt, and in search_path likewise for the traversed counters.      *)
(***************************************************************************)
IsLink(path) == path # Root /\ path # NoPath /\ fs[path].sym
\* the entries call f has counted
CountedBy(f) ==
    Processed(f) \cup (IF f.pc = "sized" THEN {Listing(f)[f.idx + 1]} ELSE {})

C9_NeverIntoSymlink ==
    /\ \A i \in Walkers : ~IsLink(stack[i].entry) /\ ~IsLink(stack[i].path)
    /\ \A j \in OpenedBy("scan") \cup OpenedBy("search") : ~IsLink(opened[j].path)
    /\ \A i \in Frames("scan") :
          LET f == stack[i]
          IN  f.pc # "open" =>
                /\ f.symlinkCnt =
                      Cardinality({n \in CountedBy(f) : StatusKnown(n) /\ fs[n].sym})
                /\ f.subdirCnt =
                      Cardinality({n \in CountedBy(f) :
                                      StatusKnown(n) /\ ~fs[n].sym /\ fs[n].type = "dir"})
    /\ (SearchMode /\ phase = "done") =>
          /\ sNumSymlinksTotal = Cardinality({n \in Visited("search") : fs[n].sym})
          /\ sNumDirsTotal =
                Cardinality({n \in Visited("search") : ~fs[n].sym /\ fs[n].type = "dir"})

\* a finished run with unlimited recursion that met a symlink to a directory
C9_Witness ==
    /\ phase = "done"
    /\ get_option(SHOW_RECURSIVE) /\ sRecursionLevel = 0
    /\ \E n \in Visited("scan") \cup Visited("search") :
          fs[n].sym /\ fs[n].type = "dir"

(***************************************************************************)
(* C10. An entry whose status cannot be read is in no counter and in no    *)
(* size and has no line but the error line; the counters and sizes of      *)
(* every call are those of the entries with a readable status that its     *)
(* loop has been through, as if the failing entries were not there.        *)
(***************************************************************************)
\* what the entries S add to the size of their directory, the entries with an
\* unreadable status left out
RECURSIVE SizeWithout(_)
SizeWithout(S) ==
    SumOf([n \in {m \in S : StatusKnown(m)} |->
              IF fs[n].type = "file"
              THEN (IF fs[n].fault = "size" THEN 0 ELSE FileSizeOf(n))
              ELSE IF fs[n].type = "dir" /\ ~fs[n].sym /\ fs[n].fault # "open"
              THEN SizeWithout({m \in EntryIds : fs[m].parent = n})
              ELSE 0])

EntryLines == {"file", "dir", "symlink", "special", "unknown", "err_size",
               "err_canon", "err_iter"}

C10_StatusFailureSkipped ==
    /\ \A n \in EntryIds : ~StatusKnown(n) =>
          \A i \in 1..Len(out) : ~(out[i].k \in EntryLines /\ out[i].n = n)
    /\ \A i \in Frames("scan") :
          LET f == stack[i]
          IN  f.pc # "open" =>
                /\ f.regularFileCnt =
                      Cardinality({n \in CountedBy(f) : StatusKnown(n) /\ KindOf(n) = "file"})
                /\ f.symlinkCnt =
                      Cardinality({n \in CountedBy(f) : StatusKnown(n) /\ KindOf(n) = "symlink"})
                /\ f.specialCnt =
                      Cardinality({n \in CountedBy(f) : StatusKnown(n) /\ KindOf(n) = "special"})
                /\ f.subdirCnt =
                      Cardinality({n \in CountedBy(f) : StatusKnown(n) /\ KindOf(n) = "dir"})
                /\ f.totalFileSize =
                      SizeWithout({n \in Processed(f) : KindOf(n) = "file"})
    /\ \A i \in Frames("size") :
          stack[i].pc = "loop" => stack[i].totalDirSize = SizeWithout(Processed(stack[i]))
    /\ (SearchMode /\ phase = "done") =>
          /\ sNumFilesTotal = Cardinality({n \in Visited("search") : KindOf(n) = "file"})
          /\ sNumSymlinksTotal = Cardinality({n \in Visited("search") : KindOf(n) = "symlink"})
          /\ sNumSpecialTotal = Cardinality({n \in Visited("search") : KindOf(n) = "special"})
          /\ sNumDirsTotal = Cardinality({n \in Visited("search") : KindOf(n) = "dir"})

\* calc_dir_size has been through an entry whose status cannot be read and
\* then through a regular file of the same directory
C10_Witness ==
    \E i \in Frames("size") :
        LET f == stack[i]
        IN  /\ f.pc = "loop"
            /\ \E a, b \in 1..f.idx :
                  /\ a < b
                  /\ ~StatusKnown(Listing(f)[a])
                  /\ KindOf(Listing(f)[b]) = "file"
                  /\ fs[Listing(f)[b]].fault = "ok"


(***************************************************************************)
(* C11. When scan_path cannot open a directory in a call of level > 0, the *)
(* call returns leaving every counter and sPrintSummary as they are and    *)
(* printing nothing but the error line; the caller goes on with its next   *)
(* entry, has counted the directory once in subdirCnt, and the run ends    *)
(* with its totals over every readable entry and with its summary printed. *)
(***************************************************************************)
\* the step in which a scan_path call of level > 0 fails to open its directory
NestedScanOpenFails ==
    /\ Running("scan", "open")
    /\ Top.pLevel > 0
    /\ OpenFails(Top.path)

\* the lines of kind k printed so far
LinesOfKind(k) == SelectSeq(out, LAMBDA l : l.k = k)

C11_FailedOpenStep ==
    NestedScanOpenFails =>
        /\ UNCHANGED <<totalVars, rootVars, matchedVars, sPrintSummary, opened, phase>>
        /\ stack' = Pop
        /\ \E errs \in {<<>>, <<Line("err_iter", Top.entry, 0)>>} : out' = out \o errs
        /\ LET caller == stack[Len(stack) - 1]
           IN  /\ caller.pc = "loop"
               /\ caller.subdirCnt =
                     Cardinality({n \in Processed(caller) :
                                     StatusKnown(n) /\ KindOf(n) = "dir"})
               /\ Top.entry \in Processed(caller)

C11_AfterFailedOpen ==
    (DisplayMode /\ phase = "done" /\ ~rootOpenFails) =>
        /\ sPrintSummary
        /\ Len(LinesOfKind("rootSum")) = 5
        /\ sNumDirsTotal = OpenedTotal("scan", "dir")
        /\ sNumFilesTotal = OpenedTotal("scan", "file")

C11_NestedOpenFailure == [][C11_FailedOpenStep]_vars /\ []C11_AfterFailedOpen

\* a finished run in which a directory below the root could not be opened and
\* an entry after it in the same directory was counted
C11_Witness ==
    /\ DisplayMode /\ phase = "done"
    /\ get_option(SHOW_RECURSIVE) /\ ~get_option(SHOW_DIR_SIZE)
    /\ \E n \in EntryIds :
          /\ fs[n].fault = "open"
          /\ HasLine("err_iter", n)
          /\ HasLine("dir", n)
          /\ \E m \in EntryIds : m > n /\ fs[m].parent = fs[n].parent /\ HasLine("file", m)


(***************************************************************************)
(* C12. A run that ends by returning from scan_path_init or                *)
(* search_path_init has printed its summary blocks iff the start directory *)
(* was opened; when it was not, every counter is 0.  A directory below the *)
(* start directory that cannot be opened never clears sPrintSummary.  No   *)
(* summary line is printed before the end of the walk, and none in a run   *)
(* that std::exit ends.                                                    *)
(***************************************************************************)
SummaryPrinted ==
    IF DisplayMode
    THEN /\ Len(LinesOfKind("rootSum")) = 5
         /\ Len(LinesOfKind("recSum")) = IF get_option(SHOW_RECURSIVE) THEN 5 ELSE 0
    ELSE /\ Len(LinesOfKind("foundSum")) = 5
         /\ Len(LinesOfKind("TotalSum")) = 5

NoSummaryLine ==
    \A i \in 1..Len(out) : out[i].k \notin {"rootSum", "recSum", "foundSum", "TotalSum"}

AllCountersZero ==
    /\ sNumFilesTotal = 0 /\ sNumSymlinksTotal = 0
    /\ sNumSpecialTotal = 0 /\ sNumDirsTotal = 0
    /\ sNumFilesRoot = 0 /\ sNumSymlinksRoot = 0
    /\ sNumSpecialRoot = 0 /\ sNumDirsRoot = 0
    /\ sNumFilesMatched = 0 /\ sNumSymlinksMatched = 0
    /\ sNumSpecialMatched = 0 /\ sNumDirsMatched = 0

\* the start directory was opened
RootOpened == \E j \in 1..Len(opened) : opened[j].path = Root /\ opened[j].fn # "size"

\* the statement as it was made: at the end of every run
C12_SummaryIffRootOpened ==
    (phase \in {"done", "exit"}) => (SummaryPrinted <=> RootOpened)

C12_SummaryAtReturn ==
    /\ phase = "done" =>
          /\ SummaryPrinted <=> RootOpened
          /\ RootOpened <=> ~rootOpenFails
          /\ ~RootOpened => (NoSummaryLine /\ AllCountersZero)
    /\ phase # "done" => NoSummaryLine
    /\ phase = "walk" =>
          (sPrintSummary <=> (RootOpened \/ (stack # <<>> /\ stack[1].pc = "open")))

\* a finished search whose summary was printed although a directory below the
\* start directory could not be opened
C12_Witness ==
    /\ SearchMode /\ phase = "done"
    /\ ~get_option(SHOW_DIR_SIZE)
    /\ SummaryPrinted
    /\ \E n \in EntryIds : fs[n].fault = "open" /\ HasLine("err_iter", n)


(***************************************************************************)
(* The display-mode runs without --show-err.                               *)
(***************************************************************************)
InitQuiet ==
    /\ fs \in FileSystems(MaxEntries, {NameOther}, NameOther, MaxFaults, ScanFaults)
    /\ rootOpenFails \in {b \in BOOLEAN : b => NumFaults(fs) < MaxFaults}
    /\ sOptionMask \in SUBSET {SHOW_RECURSIVE, SHOW_DIR_SIZE, SHOW_ABSNOINDENT}
    /\ CanonMatters
    /\ sRecursionLevel = 0
    /\ sSearchPattern = <<>>
    /\ ArgsParsed
    /\ InitCounters

SpecQuiet == InitQuiet /\ [][NextScan]_vars

(***************************************************************************)
(* C13. Without --show-err no failure prints an error message: no line of  *)
(* the output reports a failed open, status, size or canonicalization.     *)
(***************************************************************************)
ErrorLines == {"err_iter", "err_iter_root", "err_status", "err_size", "err_canon"}

C13_SilentWithoutShowErr ==
    ~get_option(SHOW_ERRORS) => \A i \in 1..Len(out) : out[i].k \notin ErrorLines


(***************************************************************************)
(* C14. No walk goes past an entry whose status can be read and which is   *)
(* none of regular file, directory, symlink and special file: no loop of   *)
(* scan_path or search_path has moved on after such an entry, and no run   *)
(* that met one returns to main.                                           *)
(***************************************************************************)
Unclassifiable(n) == StatusKnown(n) /\ KindOf(n) = "none"

C14_UnknownKindExits ==
    /\ \A i \in Walkers : \A n \in Processed(stack[i]) : ~Unclassifiable(n)
    /\ phase = "done" =>
          \A n \in Visited("scan") \cup Visited("search") : ~Unclassifiable(n)


(***************************************************************************)
(* C15. An argument is in option position unless it is the pattern after a *)
(* search option or the number after -r / --recursive.  When the arguments *)
(* hold, in option position, search options of two different modes, each   *)
(* followed by a non-empty argument, the loop of main ends in std::exit    *)
(* and no walk starts; whenever a walk starts, at most one of SEARCH_EXACT, *)
(* SEARCH_NOEXT and SEARCH_CONTAINS is set.                                 *)
(***************************************************************************)
SearchModeBits == {SEARCH_EXACT, SEARCH_NOEXT, SEARCH_CONTAINS}
IsSearchOption(a) == \E o \in SearchOptions : o[1] = a
ModeOf(a) == (CHOOSE o \in SearchOptions : o[1] = a)[2]
HasPattern(i) == i < Len(argv) /\ Len(argv[i + 1]) # 0

\* the positions of the arguments that are read as options, from position i on
RECURSIVE OptionPositions(_)
OptionPositions(i) ==
    IF i > Len(argv) THEN {}
    ELSE LET a == argv[i]
             takesNext ==
                 \/ IsSearchOption(a) /\ HasPattern(i)
                 \/ a \in RecursiveOptions /\ HasPattern(i) /\ argv[i + 1][1] # "-"
         IN  {i} \cup OptionPositions(IF takesNext THEN i + 2 ELSE i + 1)

\* the modes of the search options with a pattern among the positions S
ModesAt(S) == {ModeOf(argv[i]) : i \in {j \in S : IsSearchOption(argv[j]) /\ HasPattern(j)}}

WalkStarted == phase \in {"walk", "done"}

\* the statement as it was made: any two search options of different modes
C15_AnyTwoModesExit ==
    Cardinality(ModesAt(1..Len(argv))) >= 2 => phase \in {"parse", "exit"}

C15_OneSearchMode ==
    /\ Cardinality(ModesAt(OptionPositions(1))) >= 2 => phase \in {"parse", "exit"}
    /\ phase \notin {"parse", "exit"} => Cardinality(sOptionMask \cap SearchModeBits) <= 1
    /\ WalkStarted => (SearchMode <=> sOptionMask \cap SearchModeBits # {})

\* the loop has ended in std::exit at the second of two search options of
\* different modes, the first of which had taken its pattern
C15_Witness ==
    /\ phase = "exit"
    /\ argi \in OptionPositions(1)
    /\ IsSearchOption(argv[argi]) /\ HasPattern(argi)
    /\ \E j \in OptionPositions(1) :
          /\ j < argi
          /\ IsSearchOption(argv[j])
          /\ ModeOf(argv[j]) # ModeOf(argv[argi])
          /\ ModeOf(argv[j]) \in sOptionMask


(***************************************************************************)
(* C16. The output of a run is a function of the tree and the options:     *)
(* every number on an output line is computed from them, none is a value   *)
(* that differs between two runs over the same tree with the same options, *)
(* as the address of a buffer does.                                        *)
(***************************************************************************)
C16_OutputDetermined ==
    \A i \in DOMAIN out : out[i].n \notin sFmtIntBuffAt


(***************************************************************************)
(* C17. When the call of scan_path for a directory it has opened returns,  *)
(* it prints, for each of files, symlinks and special entries, exactly one *)
(* aggregate line if the directory holds an entry of that kind and the     *)
(* option that shows the kind is off, and none otherwise; no other step    *)
(* prints an aggregate line.  The lines come after every line of the       *)
(* directory's entries and of what lies below them: a line about an entry  *)
(* is printed only while the calls for all the directories above it are    *)
(* still running, and no directory is opened twice by scan_path.           *)
(***************************************************************************)
AggregateKinds == {"files", "symlinks", "specials"}
EntryLineKinds ==
    {"file", "symlink", "special", "dir", "unknown",
     "err_status", "err_size", "err_iter", "err_iter_root", "err_canon"}
AggregateOf(k) ==
    IF k = "file" THEN "files" ELSE IF k = "symlink" THEN "symlinks" ELSE "specials"
ShowFlagOf(k) ==
    IF k = "file" THEN SHOW_FILES ELSE IF k = "symlink" THEN SHOW_SYMLINKS
    ELSE SHOW_SPECIAL

\* the lines a step has printed
Printed == SubSeq(out', Len(out) + 1, Len(out'))
PrintedOfKind(k) == {i \in 1..Len(Printed) : Printed[i].k = k}

\* the directories above entry n
RECURSIVE Above(_)
Above(n) == IF n = Root THEN {} ELSE {fs[n].parent} \cup Above(fs[n].parent)

ScanReturns == Running("scan", "loop") /\ AtEnd

C17_AggregateStep ==
    /\ Len(out') >= Len(out)
    /\ SubSeq(out', 1, Len(out)) = out
    /\ IF ScanReturns
       THEN /\ \A k \in {"file", "symlink", "special"} :
                  Cardinality(PrintedOfKind(AggregateOf(k))) =
                      IF /\ EntriesOfKind(DirOf(Top.path), k) # {}
                         /\ ~get_option(ShowFlagOf(k))
                      THEN 1 ELSE 0
            /\ \A i \in 1..Len(Printed) : Printed[i].k \in AggregateKinds
            /\ Processed(Top) = {n \in EntryIds : fs[n].parent = DirOf(Top.path)}
            /\ stack' = Pop
       ELSE \A i \in 1..Len(Printed) : Printed[i].k \notin AggregateKinds
    /\ \A i \in 1..Len(Printed) :
          Printed[i].k \in EntryLineKinds =>
              \A d \in Above(Printed[i].n) :
                  \E j \in 1..Len(stack) : stack[j].entry = d

ScanOpensOnce ==
    \A i, j \in OpenedBy("scan") : opened[i].path = opened[j].path => i = j

C17_AggregateLines == [][C17_AggregateStep]_vars /\ []ScanOpensOnce

\* a run that has shown the files of a directory one by one, and has printed
\* one line for its symlinks after them
C17_Witness ==
    /\ DisplayMode
    /\ phase = "done"
    /\ get_option(SHOW_FILES) /\ ~get_option(SHOW_SYMLINKS)
    /\ \E i, j \in 1..Len(out) :
          /\ i < j
          /\ out[i].k = "file"
          /\ out[j].k = "symlinks" /\ out[j].n = 1
    /\ LinesOfKind("files") = <<>>
    /\ Len(LinesOfKind("symlinks")) = 1


(***************************************************************************)
(* C18. calc_dir_size returns -1 iff the directory it was called on cannot *)
(* be opened; otherwise it returns a sum that is not negative, to which an *)
(* entry whose status or size cannot be read and a subdirectory that       *)
(* cannot be opened add 0, and every other entry adds what it adds in a    *)
(* tree without failures.                                                  *)
(***************************************************************************)
C18_SizeOrSentinel ==
    ret.set =>
        /\ ret.val = -1 <=> OpenFails(ret.path)
        /\ ~OpenFails(ret.path) =>
              /\ ret.val >= 0
              /\ ret.val = SizeWithout({m \in EntryIds : fs[m].parent = DirOf(ret.path)})

\* a call has returned the size of a file next to a subdirectory that could
\* not be opened
C18_Witness ==
    /\ ret.set
    /\ ret.val > 0
    /\ \E m \in EntryIds :
          /\ fs[m].parent = DirOf(ret.path)
          /\ KindOf(m) = "dir"
          /\ fs[m].fault = "open"
          /\ HasLine("err_iter", m)


(***************************************************************************)
(* C19. In search mode every entry with a readable status and a kind, in   *)
(* every directory search_path has opened, adds 1 to the traversed counter *)
(* of its kind and to no other, whether or not its name matches and        *)
(* whatever the options that show the kinds are: at every moment each      *)
(* traversed counter is the number of entries of its kind the loops have   *)
(* been through, and at the end of the run the number of entries of its    *)
(* kind in all the directories search_path opened.                         *)
(***************************************************************************)
\* the entries the loops of search_path have been through
Traversed ==
    {n \in Visited("search") :
        \A i \in Frames("search") :
            (stack[i].pc # "open" /\ DirOf(stack[i].path) = fs[n].parent) =>
                \E p \in 1..Counted(stack[i]) : Listing(stack[i])[p] = n}
TraversedOfKind(k) == Cardinality({n \in Traversed : KindOf(n) = k})

C19_TraversedCounters ==
    SearchMode =>
        /\ sNumFilesTotal = TraversedOfKind("file")
        /\ sNumSymlinksTotal = TraversedOfKind("symlink")
        /\ sNumSpecialTotal = TraversedOfKind("special")
        /\ sNumDirsTotal = TraversedOfKind("dir")
        /\ phase = "done" =>
              /\ sNumFilesTotal = OpenedTotal("search", "file")
              /\ sNumSymlinksTotal = OpenedTotal("search", "symlink")
              /\ sNumSpecialTotal = OpenedTotal("search", "special")
              /\ sNumDirsTotal = OpenedTotal("search", "dir")

\* the end of a search that has counted a file whose name does not match and
\* a symlink whose name matches but that the options do not show
C19_Witness ==
    /\ SearchMode
    /\ phase = "done"
    /\ ~get_option(SHOW_SYMLINKS)
    /\ sNumFilesTotal = 1 /\ sNumSymlinksTotal = 1
    /\ sNumFilesMatched = 0 /\ sNumSymlinksMatched = 0
    /\ \E n, m \in Visited("search") :
          /\ KindOf(n) = "file" /\ ~NameMatches(fs[n].name)
          /\ KindOf(m) = "symlink" /\ NameMatches(fs[m].name)


(***************************************************************************)
(* C20. The comparison of a name with the pattern in search_path is the    *)
(* reference matcher: with --search the name is the pattern; with          *)
(* --search-noext the name is the pattern followed by the name's final     *)
(* extension (as report.pdf and report.txt are for report, and reports.txt *)
(* is not); with --contains the name is some prefix, the pattern and some  *)
(* suffix.  A file whose name the reference matches is counted and shown,  *)
(* any other is not.                                                       *)
(***************************************************************************)
\* the final extension of a name: what starts at its last dot, unless that
\* dot is the first character
RefExtension(nm) ==
    IF \E i \in 2..Len(nm) : nm[i] = "."
    THEN CHOOSE x \in {SubSeq(nm, i, Len(nm)) : i \in 2..Len(nm)} :
             /\ x[1] = "."
             /\ \A j \in 2..Len(x) : x[j] # "."
    ELSE <<>>

RefMatches(nm, pat) ==
    IF get_option(SEARCH_EXACT)
    THEN Len(nm) = Len(pat) /\ \A i \in 1..Len(nm) : nm[i] = pat[i]
    ELSE IF get_option(SEARCH_NOEXT)
    THEN pat \o RefExtension(nm) = nm
    ELSE \E a, b \in 0..Len(nm) :
            /\ a + Len(pat) + b = Len(nm)
            /\ \A i \in 1..Len(pat) : nm[a + i] = pat[i]

C20_MatcherIsReference ==
    /\ \A n \in EntryIds :
          NameMatches(fs[n].name) <=> RefMatches(fs[n].name, sSearchPattern)
    /\ (SearchMode /\ phase = "done" /\ Len(fs) = 1 /\ KindOf(1) = "file"
          /\ StatusKnown(1) /\ get_option(SHOW_FILES) /\ OpenedBy("search") # {}) =>
          /\ sNumFilesTotal = 1
          /\ sNumFilesMatched = (IF RefMatches(fs[1].name, sSearchPattern) THEN 1 ELSE 0)
          /\ (fs[1].fault = "ok" =>
                 (HasLine("file", 1) <=> RefMatches(fs[1].name, sSearchPattern)))

\* a search without extension for r has found r.s, or a search for the
\* substring s has found it in the middle of rs.
C20_Witness ==
    /\ phase = "done"
    /\ sNumFilesMatched = 1
    /\ \/ /\ get_option(SEARCH_NOEXT)
          /\ sSearchPattern = <<"r">>
          /\ fs[1].name = <<"r", ".", "s">>
       \/ /\ get_option(SEARCH_CONTAINS)
          /\ sSearchPattern = <<"s">>
          /\ fs[1].name = <<"r", "s", ".">>


(***************************************************************************)
(* C21. In search mode, when canonical () fails for an entry that matched, *)
(* the iteration prints no line of the entry (at most the error message),  *)
(* and the entry stays counted: the iteration adds 1 to one matched        *)
(* counter and 1 to one traversed counter, and no step ever lowers a       *)
(* counter.                                                                *)
(***************************************************************************)
ResultLineKinds == {"file", "symlink", "special", "dir"}
MatchedSum ==
    sNumFilesMatched + sNumSymlinksMatched + sNumSpecialMatched + sNumDirsMatched
TraversedSum == sNumFilesTotal + sNumSymlinksTotal + sNumSpecialTotal + sNumDirsTotal

\* the loop of search_path is at an entry that matches and whose path
\* canonical () cannot convert
AtFailedCanon ==
    /\ Running("search", "loop")
    /\ ~AtEnd
    /\ ~StatusFails(fs[CurEntry])
    /\ SearchIsMatch(fs[CurEntry])
    /\ fs[CurEntry].fault = "canon"

C21_FailedCanonStep ==
    /\ AtFailedCanon =>
          /\ \A i \in 1..Len(Printed) :
                Printed[i].k = "err_canon" /\ Printed[i].n = CurEntry
          /\ MatchedSum' = MatchedSum + 1
          /\ TraversedSum' = TraversedSum + 1
    /\ sNumFilesMatched' >= sNumFilesMatched
    /\ sNumSymlinksMatched' >= sNumSymlinksMatched
    /\ sNumSpecialMatched' >= sNumSpecialMatched
    /\ sNumDirsMatched' >= sNumDirsMatched
    /\ sNumFilesTotal' >= sNumFilesTotal
    /\ sNumSymlinksTotal' >= sNumSymlinksTotal
    /\ sNumSpecialTotal' >= sNumSpecialTotal
    /\ sNumDirsTotal' >= sNumDirsTotal

NoLineAfterFailedCanon ==
    SearchMode =>
        \A n \in EntryIds :
            fs[n].fault = "canon" => \A k \in ResultLineKinds : ~HasLine(k, n)

C21_CanonFailureKeepsCount == [][C21_FailedCanonStep]_vars /\ []NoLineAfterFailedCanon

\* the end of a search that counted an entry as matched and traversed and
\* printed only the error of canonical () for it
C21_Witness ==
    /\ SearchMode
    /\ phase = "done"
    /\ \E n \in Traversed :
          /\ fs[n].fault = "canon"
          /\ SearchIsMatch(fs[n])
          /\ HasLine("err_canon", n)
          /\ \A k \in ResultLineKinds : ~HasLine(k, n)
    /\ MatchedSum >= 1
    /\ TraversedSum >= MatchedSum


(***************************************************************************)
(* C22. The block printed for an entry by print_permissions shows, in each *)
(* of its nine positions, the letter of the position (r, w or x) iff the   *)
(* permission bit of the position is set in the status of the entry, and - *)
(* iff the bit is clear.                                                   *)
(***************************************************************************)
C22_PermissionLetters ==
    \A i \in 1..Len(out) :
        out[i].k = "perms" =>
            \A b \in 1..9 :
                /\ out[i].v[b] = PermLetters[b] <=> PermBits[b] \in fs[out[i].n].perms
                /\ out[i].v[b] = "-" <=> PermBits[b] \notin fs[out[i].n].perms


(***************************************************************************)
(* C23. In display mode the output is depth-first and pre-order.  For      *)
(* every subdirectory: with --dir-size its line is printed by the step     *)
(* that receives the value of calc_dir_size, after every step of that      *)
(* computation; its line comes before the line of every entry below it;    *)
(* and everything printed about it and about what lies below it, messages  *)
(* included, comes before the line of every later entry of the same        *)
(* directory and the lines of the entries below that one.                  *)
(***************************************************************************)
Below(n) == {m \in EntryIds : n \in Above(m)}
LinesAbout(S, kinds) == {q \in 1..Len(out) : out[q].k \in kinds /\ out[q].n \in S}
LaterSiblings(n) == {m \in EntryIds : fs[m].parent = fs[n].parent /\ m > n}
Subdirs == {n \in EntryIds : KindOf(n) = "dir"}

\* the statement as it was made: no line at all about a descendant comes
\* before the line of the directory
C23_AnyLineAfterOwn ==
    DisplayMode =>
        \A n \in Subdirs :
            \A p \in LinesAbout({n}, {"dir"}), q \in LinesAbout(Below(n), EntryLineKinds) :
                p < q

C23_SizedStep ==
    (DisplayMode /\ get_option(SHOW_DIR_SIZE)) =>
        \A i \in 1..Len(Printed) :
            Printed[i].k = "dir" =>
                /\ Running("scan", "sized")
                /\ ret.set
                /\ Printed[i].n = CurEntry
                /\ Printed[i].v = ret.val

C23_Ordered ==
    DisplayMode =>
        /\ \A i \in Frames("size") : LinesAbout({stack[i].entry}, {"dir"}) = {}
        /\ \A n \in Subdirs :
              /\ \A q \in LinesAbout(Below(n), ResultLineKinds) :
                    \E p \in LinesAbout({n}, {"dir"}) : p < q
              /\ \A p \in LinesAbout({n}, {"dir"}),
                    q \in LinesAbout(Below(n), ResultLineKinds) : p < q
              /\ \A m \in LaterSiblings(n) :
                    \A q \in LinesAbout({n} \cup Below(n), EntryLineKinds),
                       r \in LinesAbout({m} \cup Below(m), ResultLineKinds) : q < r

C23_DepthFirstPreOrder == [][C23_SizedStep]_vars /\ []C23_Ordered

\* the end of a scan that printed the computed size of a subdirectory, then
\* the file in it, then a later entry of the start directory
C23_Witness ==
    /\ DisplayMode
    /\ phase = "done"
    /\ get_option(SHOW_DIR_SIZE) /\ get_option(SHOW_RECURSIVE)
    /\ \E n \in Subdirs, m \in EntryIds, p, q, r \in 1..Len(out) :
          /\ p < q /\ q < r
          /\ out[p].k = "dir" /\ out[p].n = n /\ out[p].v > 0
          /\ out[q].k = "file" /\ out[q].n \in Below(n)
          /\ out[r].k \in ResultLineKinds /\ out[r].n = m /\ m \in LaterSiblings(n)


(***************************************************************************)
(* C24. In display mode the iteration over a regular file whose size       *)
(* cannot be read adds 1 to the file counter of the directory and leaves   *)
(* its byte total as it is; the line of the files of a directory shows the *)
(* number of its regular files and the sum of the sizes of those whose     *)
(* size could be read.                                                     *)
(***************************************************************************)
FilesOf(d) == EntriesOfKind(d, "file")
ReadableSize(d) ==
    SumOf([n \in {m \in FilesOf(d) : fs[m].fault # "size"} |-> FileSizeOf(n)])

AtUnsizedFile ==
    /\ Running("scan", "loop")
    /\ ~AtEnd
    /\ StatusKnown(CurEntry)
    /\ KindOf(CurEntry) = "file"
    /\ fs[CurEntry].fault = "size"

C24_FileStep ==
    /\ AtUnsizedFile =>
          /\ stack'[Len(stack)].regularFileCnt = Top.regularFileCnt + 1
          /\ stack'[Len(stack)].totalFileSize = Top.totalFileSize
          /\ stack'[Len(stack)].idx = Top.idx + 1
    /\ ScanReturns =>
          \A i \in 1..Len(Printed) :
              Printed[i].k = "files" =>
                  /\ Printed[i].n = Cardinality(FilesOf(DirOf(Top.path)))
                  /\ Printed[i].v = ReadableSize(DirOf(Top.path))

C24_UnsizedFileCounted == [][C24_FileStep]_vars

\* the line of the files of a directory with two files, the size of one of
\* which could not be read
C24_Witness ==
    /\ DisplayMode
    /\ \E n, m \in FilesOf(Root) :
          /\ n # m
          /\ fs[n].fault = "size"
          /\ fs[m].fault = "ok"
          /\ \E i \in 1..Len(out) :
                out[i].k = "files" /\ out[i].n = 2 /\ out[i].v = FileSizeOf(m)


(***************************************************************************)
(* C25. When -h or --help is among the arguments that are read as options  *)
(* and the loop over the arguments does not end in a fatal error (two      *)
(* search modes, a search option without pattern, a depth that is no       *)
(* number), main prints the usage text, returns 0 and starts no walk,      *)
(* whatever the other arguments are; in no case does a walk start.         *)
(***************************************************************************)
HelpOptions == {<<"-", "h">>, <<"-", "-", "h", "e", "l", "p">>}
HelpAsked == \E i \in OptionPositions(1) : argv[i] \in HelpOptions
NoWalk == stack = <<>> /\ opened = <<>> /\ TraversedSum = 0 /\ ~sPrintSummary

\* the statement as it was made: -h or --help anywhere among the arguments
C25_HelpAnywhere ==
    (\E i \in 1..Len(argv) : argv[i] \in HelpOptions) =>
        /\ phase \in {"parse", "help"}
        /\ phase = "help" => out = <<Line("usage", 0, 0)>> /\ NoWalk

C25_HelpExits ==
    /\ HelpAsked => phase \in {"parse", "help", "exit"}
    /\ phase = "help" =>
          /\ HelpAsked
          /\ out = <<Line("usage", 0, 0)>>
          /\ NoWalk
          /\ ~ENABLED Next
    /\ (HelpAsked /\ phase = "exit") =>
          /\ argi \in OptionPositions(1)
          /\ \/ IsSearchOption(argv[argi])
             \/ argv[argi] \in RecursiveOptions
          /\ out = <<>>
          /\ NoWalk

\* the usage text after a command line that also asked for a search
C25_Witness ==
    /\ phase = "help"
    /\ HelpAsked
    /\ sOptionMask \cap SearchModeBits # {}
    /\ searchPattern # <<>>
    /\ out = <<Line("usage", 0, 0)>>


(***************************************************************************)
(* C26. When an argument that is read as an option is a search option that *)
(* is the last argument or is followed by an empty argument, or is -r or   *)
(* --recursive followed by an argument that does not start with - and      *)
(* holds a character that is no digit, the program ends with a status that *)
(* is not 0, and no walk starts.                                           *)
(***************************************************************************)
HasNonDigit(a) == \E j \in 1..Len(a) : ~IsDigit(a[j])

FatalAt(i) ==
    \/ IsSearchOption(argv[i]) /\ ~HasPattern(i)
    \/ /\ argv[i] \in RecursiveOptions
       /\ HasPattern(i)
       /\ argv[i + 1][1] # "-"
       /\ HasNonDigit(argv[i + 1])

\* the statement as it was made: such an argument anywhere on the command line
C26_FatalAnywhere ==
    (\E i \in 1..Len(argv) : FatalAt(i)) => phase \in {"parse", "exit"}

C26_FatalConfiguration ==
    /\ (\E i \in OptionPositions(1) : FatalAt(i)) => phase \in {"parse", "exit"}
    /\ phase = "exit" => NoWalk /\ out = <<>>
    /\ (phase = "exit" /\ argv[argi] \in RecursiveOptions) => FatalAt(argi)
    /\ (phase = "exit" /\ IsSearchOption(argv[argi])) =>
          \/ FatalAt(argi)
          \/ ConflictingModes(ModeOf(argv[argi])) \cap sOptionMask # {}

\* the loop has ended at a search option, the first of the command line,
\* that is followed by an empty argument
C26_Witness ==
    /\ phase = "exit"
    /\ argi \in OptionPositions(1)
    /\ IsSearchOption(argv[argi])
    /\ argi < Len(argv)
    /\ argv[argi + 1] = <<>>
    /\ sOptionMask \cap SearchModeBits = {}


(***************************************************************************)
(* C27. In search mode the line of a symlink that matched and is shown     *)
(* holds the path of the symlink itself, then ->, then the target of the   *)
(* symlink as read_symlink returns it, as the line of display mode does.   *)
(***************************************************************************)
SymlinkLineShows(l) ==
    /\ l.v.path = l.n
    /\ l.v.target = read_symlink(l.n)

C27_SearchSymlinkLine ==
    SearchMode =>
        \A i \in 1..Len(out) : out[i].k = "symlink" => SymlinkLineShows(out[i])


(***************************************************************************)
(* C28. The lines of both modes are well formed: at the end of a run every *)
(* entry has as many permission blocks as lines when --permissions is set  *)
(* and none otherwise, as many time blocks as lines when                   *)
(* --modification-time is set and none otherwise, and every block is       *)
(* followed by the line of its entry.                                      *)
(***************************************************************************)
BlocksOf(n, k) == LinesAbout({n}, {k})
LinesOf(n) == LinesAbout({n}, ResultLineKinds)

C28_WellFormedLines ==
    phase = "done" =>
        \A n \in EntryIds :
            /\ Cardinality(BlocksOf(n, "perms")) =
                   (IF get_option(SHOW_PERMISSIONS) THEN Cardinality(LinesOf(n)) ELSE 0)
            /\ Cardinality(BlocksOf(n, "time")) =
                   (IF get_option(SHOW_LASTTIME) THEN Cardinality(LinesOf(n)) ELSE 0)
            /\ \A p \in BlocksOf(n, "perms") \cup BlocksOf(n, "time") :
                  \E q \in LinesOf(n) : p < q

(***************************************************************************)
(* C29. The directories that scan_path and search_path go into do not      *)
(* depend on how paths are shown: every call of either function walks its  *)
(* directory through a path that denotes that directory, with or without   *)
(* --abs, matched or not, and whether or not canonical () succeeded for    *)
(* the shown path.                                                         *)
(***************************************************************************)
C29_WalkedByOwnPath ==
    \A i \in 1..Len(stack) :
        stack[i].fn \in {"scan", "search"} => stack[i].path = stack[i].entry

(***************************************************************************)
(* C30. Once the arguments are parsed without a fatal error, the depth     *)
(* limit is the decimal value of the integer argument taken by the last    *)
(* -r/--recursive option that took one, and 0 when none took one: the      *)
(* value parse_str_to_uint64 leaves does not depend on what the result     *)
(* variable held before.                                                   *)
(***************************************************************************)
RECURSIVE DecimalValue(_)
DecimalValue(a) ==
    IF a = <<>> THEN 0
    ELSE DecimalValue(SubSeq(a, 1, Len(a) - 1)) * 10 + DigitValue(a[Len(a)])

\* the positions of the -r/--recursive options that take the next argument
DepthOptions ==
    {i \in OptionPositions(1) :
        argv[i] \in RecursiveOptions /\ HasPattern(i) /\ argv[i + 1][1] # "-"}

LastDepthOption == CHOOSE i \in DepthOptions : \A j \in DepthOptions : j <= i

C30_DepthIsLastArgument ==
    phase \notin {"parse", "exit"} =>
        sRecursionLevel = IF DepthOptions = {} THEN 0
                          ELSE DecimalValue(argv[LastDepthOption + 1])

====
